---- MODULE Spec2Model ----
(***************************************************************************)
(* Interview service backend: the relational tables of app/db/models.py,   *)
(* the request handlers of app/api and the methods of app/services, each   *)
(* handler one atomic request (one session, one commit).                   *)
(*                                                                         *)
(* A handler is an operator from the database it finds and its request to  *)
(* the response status and the database it leaves.  An HTTPException       *)
(* raised before db.commit() leaves every table as it was: get_db closes   *)
(* the session without committing.  An IntegrityError raised by the flush  *)
(* inside db.commit() is not caught by any handler: the response is 500    *)
(* and the transaction is rolled back.                                     *)
(***************************************************************************)
EXTENDS Integers, Sequences, FiniteSets, TLC

\* ------------------------------------------------------------------ bounds
MaxTemplates == 1
MaxQuestions == 2
MaxInterviewers == 2
MaxForms == 2
MaxScores == 2
MaxEvaluations == 2
MaxFeedbacks == 2
MaxPhrases == 2
MaxListLen == 2
\* the forms of the synchronisation runs
MaxSyncForms == 1
MaxUpdateRows == 1
\* the requests that are served at the same time
MaxInFlight == 2
\* the rows of each table that tags the questions
MaxTags == 1
\* the templates that are made by cloning
MaxClones == 1

\* a nullable column that holds no value (ids start at 1)
NULL == 0

\* ------------------------------------------------------------------ state
VARIABLES
    templates,          \* application_templates: set of ids
    questions,          \* questions: set of ids
    interviewers,       \* interviewers: set of rows
    forms,              \* interview_forms: set of rows
    scores,             \* scores: set of rows
    evaluations,        \* evaluations: set of rows
    feedbacks,          \* feedbacks: set of rows
    phrases,            \* predefined_phrases: set of rows
    template_questions, \* join table: set of <<template_id, question_id>>
    interviewer_forms,  \* join table: how many rows hold <<interviewer_id, form_id>>
    template_columns,   \* application_templates: id -> the columns that an update may set
    question_columns,   \* questions: id -> the columns of the row
    units,              \* units: set of rows
    difficulty_levels,  \* difficulty_levels: set of rows
    seniority_levels,   \* seniority_levels: set of rows
    question_groups,    \* question_groups: set of rows
    seq,                \* the id sequence of every table
    in_flight,          \* the requests that are between their query and their commit
    last                \* the last request and its response

tables == <<templates, questions, interviewers, forms, scores, evaluations,
            feedbacks, phrases, template_questions, interviewer_forms,
            template_columns, question_columns,
            units, difficulty_levels, seniority_levels, question_groups>>
vars == <<templates, questions, interviewers, forms, scores, evaluations,
          feedbacks, phrases, template_questions, interviewer_forms,
          template_columns, question_columns,
          units, difficulty_levels, seniority_levels, question_groups,
          seq, in_flight, last>>

TableNames == {"templates", "questions", "interviewers", "forms", "scores",
               "evaluations", "feedbacks", "phrases",
               "units", "difficulty_levels", "seniority_levels", "question_groups"}

\* the database as one value, as a handler's session sees it
DB == [templates |-> templates, questions |-> questions,
       interviewers |-> interviewers, forms |-> forms, scores |-> scores,
       evaluations |-> evaluations, feedbacks |-> feedbacks,
       phrases |-> phrases, template_questions |-> template_questions,
       interviewer_forms |-> interviewer_forms,
       template_columns |-> template_columns, question_columns |-> question_columns,
       units |-> units, difficulty_levels |-> difficulty_levels,
       seniority_levels |-> seniority_levels, question_groups |-> question_groups,
       seq |-> seq]

EmptyDB == [templates |-> {}, questions |-> {}, interviewers |-> {},
            forms |-> {}, scores |-> {}, evaluations |-> {}, feedbacks |-> {},
            phrases |-> {}, template_questions |-> {},
            interviewer_forms |-> <<>>, template_columns |-> <<>>,
            question_columns |-> <<>>, units |-> {}, difficulty_levels |-> {},
            seniority_levels |-> {}, question_groups |-> {},
            seq |-> [t \in TableNames |-> 0]]

\* the rows of a database, its id sequences left out
Rows(d) == [templates |-> d.templates, questions |-> d.questions,
            interviewers |-> d.interviewers, forms |-> d.forms,
            scores |-> d.scores, evaluations |-> d.evaluations,
            feedbacks |-> d.feedbacks, phrases |-> d.phrases,
            template_questions |-> d.template_questions,
            interviewer_forms |-> d.interviewer_forms,
            template_columns |-> d.template_columns,
            question_columns |-> d.question_columns,
            units |-> d.units, difficulty_levels |-> d.difficulty_levels,
            seniority_levels |-> d.seniority_levels,
            question_groups |-> d.question_groups]

\* ------------------------------------------------------------------ helpers
Ids(rows) == {r.id : r \in rows}
Row(rows, id) == CHOOSE r \in rows : r.id = id
Range(s) == {s[k] : k \in DOMAIN s}
HasDuplicate(s) == \E a, b \in DOMAIN s : a < b /\ s[a] = s[b]
SeqsUpTo(S, n) == UNION {[1..k -> S] : k \in 0..n}
\* the orders in which a query without ORDER BY may return a set of rows
Orders(S) == {s \in [1..Cardinality(S) -> S] : Range(s) = S}

\* a column that holds no value (None, SQL NULL) where the values are strings
None == "None"
\* the time at which the rows are created (default=datetime.datetime.utcnow)
CreatedAt == "2024-05-01 08:00"
\* a table whose rows are told apart by their values only: how many rows
\* hold each value (no row: the value is not in the domain).  INSERT adds
\* one row per statement, DELETE takes out every row of the values named
InsertRows(table, rows) ==
    [p \in DOMAIN table \cup Range(rows) |->
        (IF p \in DOMAIN table THEN table[p] ELSE 0)
        + Cardinality({k \in DOMAIN rows : rows[k] = p})]
DeleteRows(table, deleted) == [p \in DOMAIN table \ deleted |-> table[p]]

\* a function with the key k set to v, and with the key k taken out
With(f, k, v) == [x \in DOMAIN f \cup {k} |-> IF x = k THEN v ELSE f[x]]
Without(f, k) == [x \in DOMAIN f \ {k} |-> f[x]]

\* the next value of a table's id sequence; a value drawn is never reused,
\* also when the transaction that drew it is rolled back
NextId(d, t) == d.seq[t] + 1
Draw(d, t) == [d EXCEPT !.seq[t] = @ + 1]

\* a response: the status, the error detail ("" when there is no error), the
\* id of the row that the handler returns (NULL when it returns no row), the
\* database left behind, and how many db.commit() calls of the handler
\* completed.  A handler that returns has passed its db.commit()
Response(status, d) ==
    [status |-> status, detail |-> "", id |-> NULL, db |-> d, commits |-> 1]
Returning(status, id, d) ==
    [status |-> status, detail |-> "", id |-> id, db |-> d, commits |-> 1]
\* raise HTTPException(status_code=..., detail=...): the raise precedes the
\* handler's db.commit(), nothing was committed
HTTPException(status, detail, d) ==
    [status |-> status, detail |-> detail, id |-> NULL, db |-> d, commits |-> 0]
\* an exception no handler catches: 500, the flush of db.commit() failed and
\* the transaction is rolled back (d is the database before the request,
\* with the sequences the flush drew)
IntegrityError(d) ==
    [status |-> 500, detail |-> "IntegrityError", id |-> NULL, db |-> d, commits |-> 0]

\* ------------------------------------------------------------------ the ORM's flush
(***************************************************************************)
(* db.commit() flushes the session.  For a many-to-many collection         *)
(* (relationship(..., secondary=...)) the flush inserts one row of the     *)
(* join table for every member of the collection that was not loaded from  *)
(* the database, once for every time the list holds it; a member that was  *)
(* loaded and is appended again is no change of the collection.  Every     *)
(* append also fires the backref: the appended object's own, unloaded      *)
(* collection records the parent as a pending member.  Whether the flush   *)
(* also writes these pending members, and on which side first, is the      *)
(* ORM's, which this repository does not pin:                              *)
(*   "forward"          only the appended-to collection is flushed;        *)
(*   "forward_backref"  it is flushed first, then the pending members      *)
(*                      that the first pass did not write;                 *)
(*   "backref_forward"  the pending members are written first (once per    *)
(*                      object), the first pass then skips them.           *)
(* Both join tables have a composite primary key: a second row for a pair  *)
(* is an IntegrityError.                                                   *)
(***************************************************************************)
OrmFlush == {"forward", "forward_backref", "backref_forward"}

\* a join table without its primary key
PrimaryKeyIgnored(held, writes) == FALSE

\* the composite primary key of a join table that holds the members `held`
\* of a parent refuses the INSERTs `writes` of members for that parent when
\* one of them is written twice or is held already
PrimaryKeyViolated(held, writes) ==
    HasDuplicate(writes) \/ Range(writes) \cap held # {}

\* the members of S in some order
InSomeOrder(S) == CHOOSE s \in Orders(S) : TRUE

\* the members the flush writes for a collection whose `loaded` members came
\* from the database and to which `appended` was appended, in this order
SecondaryWrites(loaded, appended, orm) ==
    LET forward == SelectSeq(appended, LAMBDA x : x \notin loaded)
        pending == Range(appended)
    IN  CASE orm = "forward" -> forward
          [] orm = "forward_backref" -> forward \o InSomeOrder(pending \cap loaded)
          [] orm = "backref_forward" -> InSomeOrder(pending)

\* the flush of the collection against a join table that holds `held` for
\* the parent: the INSERTs in their order, the members they add, and
\* clash: the primary key refuses one of them
FlushSecondary(held, loaded, appended, orm) ==
    LET writes == SecondaryWrites(loaded, appended, orm)
    IN  [writes |-> writes, rows |-> Range(writes),
         clash |-> PrimaryKeyViolated(held, writes)]

\* the flush in the request that loaded the collection: the table holds
\* what was loaded
SecondaryInserts(loaded, appended, orm) == FlushSecondary(loaded, loaded, appended, orm)

\* form.interviewers, template.questions: the members a lazy load returns
FormInterviewers(d, form_id) ==
    {p[1] : p \in {x \in DOMAIN d.interviewer_forms : x[2] = form_id}}
TemplateQuestions(d, template_id) == {p[2] : p \in {x \in d.template_questions : x[1] = template_id}}

\* a service method that returns its object: no HTTP error (written as 200)
Returned(d) == Response(200, d)

\* ------------------------------------------------------------------ templates, questions, interviewers
\* POST /api/templates/
create_template(d) ==
    LET d1 == Draw(d, "templates")
        id == NextId(d, "templates")
        row == [name |-> "Backend", description |-> None, updated_at |-> CreatedAt]
    IN  Returning(201, id,
                  [d1 EXCEPT !.templates = @ \cup {id},
                             !.template_columns = With(@, id, row)])

\* the fields of QuestionBase, and those that are foreign keys with the table
\* each refers to
QuestionFields == {"text", "weight", "docs_reference", "priority",
                   "unit_id", "difficulty_id", "level_id", "group_id"}
ForeignKeys == [unit_id |-> "units", difficulty_id |-> "difficulty_levels",
                level_id |-> "seniority_levels", group_id |-> "question_groups"]

\* a foreign key of a new question holds NULL or the id of a row
ForeignKeysHold(d, question) ==
    \A c \in DOMAIN ForeignKeys :
        question[c] = NULL \/ question[c] \in Ids(d[ForeignKeys[c]])

\* Question(**question.dict()): one column for every field of the request
QuestionRow(question) ==
    [c \in QuestionFields \cup {"created_at", "updated_at"} |->
        IF c \in QuestionFields THEN question[c] ELSE CreatedAt]

\* create_question that stores the text and the tags and leaves the other
\* columns to their defaults
create_question_defaults(d, question) ==
    LET d1 == Draw(d, "questions")
        id == NextId(d, "questions")
        row == [QuestionRow(question) EXCEPT !.weight = 10, !.priority = 1,
                                             !.docs_reference = None]
    IN  IF ~ForeignKeysHold(d, question)
        THEN IntegrityError(d1)
        ELSE Returning(201, id,
                       [d1 EXCEPT !.questions = @ \cup {id},
                                  !.question_columns = With(@, id, row)])

\* POST /api/questions/: the INSERT draws an id; a foreign key that names no
\* row makes the commit fail
create_question(d, question) ==
    LET d1 == Draw(d, "questions")
        id == NextId(d, "questions")
    IN  IF ~ForeignKeysHold(d, question)
        THEN IntegrityError(d1)
        ELSE Returning(201, id,
                       [d1 EXCEPT !.questions = @ \cup {id},
                                  !.question_columns = With(@, id, QuestionRow(question))])

\* QuestionResponse (orm_mode): the fields of QuestionBase, the id and the
\* two timestamps, read from the row
QuestionResponse(d, question_id) ==
    [c \in QuestionFields \cup {"id", "created_at", "updated_at"} |->
        IF c = "id" THEN question_id ELSE d.question_columns[question_id][c]]

\* GET /api/questions/{question_id}: the response and its body (one element,
\* none when there is no row)
get_question(d, question_id) ==
    IF question_id \notin d.questions
    THEN [status |-> 404, detail |-> "question not found", id |-> NULL, db |-> d,
          body |-> <<>>]
    ELSE [status |-> 200, detail |-> "", id |-> question_id, db |-> d,
          body |-> <<QuestionResponse(d, question_id)>>]

\* `if value:` for an Optional[int] query parameter: the parameters that a
\* request leaves out are not in the domain of params; None and 0 are falsy
Truthy(params, c) == c \in DOMAIN params /\ params[c] # 0

\* column == value in SQL: a NULL column equals no value
SqlEq(column, value) == column # NULL /\ column = value

\* text ILIKE '%pattern%' for the texts and the patterns of the requests:
\* the pairs where the text holds the pattern, letter case ignored
Contains == {<<"What is a goroutine?", "GO">>, <<"Explain GOPATH", "GO">>,
             <<"Explain GOPATH", "path">>, <<"What is a channel?", "chan">>}
ILike(text, pattern) == <<text, pattern>> \in Contains

\* query.offset(skip).limit(limit).all() on the rows in the order that the
\* database returns them
OffsetLimit(order, skip, limit) ==
    LET n == IF Len(order) - skip < limit THEN Len(order) - skip ELSE limit
    IN  IF n <= 0 THEN <<>> ELSE [k \in 1..n |-> order[skip + k]]

\* the filters that the tests of get_questions apply
QuestionFilter(d, params, text_search) ==
    {id \in d.questions :
        /\ \A c \in DOMAIN ForeignKeys :
              Truthy(params, c) => SqlEq(d.question_columns[id][c], params[c])
        /\ (text_search # None /\ text_search # "")
              => ILike(d.question_columns[id].text, text_search)}

\* GET /api/questions/: the ids of the rows returned; scan is the order in
\* which the database goes through the table (the query has no ORDER BY)
get_questions(d, skip, limit, params, text_search, scan) ==
    LET passing == QuestionFilter(d, params, text_search)
        order == SelectSeq(scan, LAMBDA id : id \in passing)
    IN  [status |-> 200, detail |-> "", id |-> NULL, db |-> d,
         body |-> OffsetLimit(order, skip, limit)]

\* QuestionService.get_questions
service_get_questions(d, skip, limit, params, text_search, scan) ==
    LET passing == QuestionFilter(d, params, text_search)
        order == SelectSeq(scan, LAMBDA id : id \in passing)
    IN  [status |-> Returned(d).status, detail |-> "", id |-> NULL, db |-> d,
         body |-> OffsetLimit(order, skip, limit)]

\* the INSERT of a row of a table whose name column is unique=True
InsertNamed(d, t, name) ==
    LET d1 == Draw(d, t)
        row == [id |-> NextId(d, t), name |-> name]
    IN  IF \E r \in d[t] : r.name = name
        THEN IntegrityError(d1)
        ELSE Returning(201, row.id, [d1 EXCEPT ![t] = @ \cup {row}])

\* POST /api/questions/units/, difficulties/, seniority-levels/, groups/
create_unit(d, unit) == InsertNamed(d, "units", unit.name)
create_difficulty(d, difficulty) == InsertNamed(d, "difficulty_levels", difficulty.name)
create_seniority(d, seniority) == InsertNamed(d, "seniority_levels", seniority.name)
create_group(d, group) == InsertNamed(d, "question_groups", group.name)

\* POST /api/interviews/interviewers/
create_interviewer(d, interviewer) ==
    IF \E r \in d.interviewers : r.email = interviewer.email
    THEN HTTPException(400, "email exists", d)
    ELSE LET d1 == Draw(d, "interviewers")
             row == [id |-> NextId(d, "interviewers"), name |-> interviewer.name,
                     email |-> interviewer.email, position |-> interviewer.position]
         IN  Returning(201, row.id, [d1 EXCEPT !.interviewers = @ \cup {row}])

\* create_interviewer from its db.add on, for a request whose query found no
\* row with the email: the INSERT draws an id; interviewers.email is
\* unique=True, so a row with the email that was committed in between makes
\* the commit fail
create_interviewer_commit_no_unique(d, interviewer) ==
    LET d1 == Draw(d, "interviewers")
        row == [id |-> NextId(d, "interviewers"), name |-> interviewer.name,
                email |-> interviewer.email, position |-> interviewer.position]
    IN  Returning(201, row.id, [d1 EXCEPT !.interviewers = @ \cup {row}])

create_interviewer_commit(d, interviewer) ==
    LET d1 == Draw(d, "interviewers")
        row == [id |-> NextId(d, "interviewers"), name |-> interviewer.name,
                email |-> interviewer.email, position |-> interviewer.position]
    IN  IF \E r \in d.interviewers : r.email = interviewer.email
        THEN IntegrityError(d1)
        ELSE Returning(201, row.id, [d1 EXCEPT !.interviewers = @ \cup {row}])

\* InterviewService.create_interviewer
service_create_interviewer(d, interviewer_data) ==
    IF \E r \in d.interviewers : r.email = interviewer_data.email
    THEN HTTPException(400, "email exists", d)
    ELSE LET r == create_interviewer_commit(d, interviewer_data)
         IN  [r EXCEPT !.status = Returned(d).status]

\* ------------------------------------------------------------------ interview forms
\* the flush of a new InterviewForm whose interviewers list is `appended`:
\* INSERT the form (its id is drawn), then the join rows
FlushNewForm(d, form, appended, orm, ok) ==
    LET id == NextId(d, "forms")
        d1 == Draw(d, "forms")
        ins == SecondaryInserts({}, appended, orm)
        row == [id |-> id, candidate_id |-> form.candidate_id,
                candidate_name |-> form.candidate_name, position |-> form.position,
                interview_date |-> form.interview_date, template_id |-> form.template_id,
                updated_at |-> CreatedAt]
    IN  IF ins.clash
        THEN IntegrityError(d1)
        ELSE Returning(ok, id, [d1 EXCEPT !.forms = @ \cup {row},
                                        !.interviewer_forms = InsertRows(@,
                                            [k \in DOMAIN ins.writes |-> <<ins.writes[k], id>>])])

\* create_interview_form that saves the form before it looks up the
\* interviewers
create_interview_form_saving(d, form, orm) ==
    IF form.template_id \notin d.templates
    THEN HTTPException(404, "template not found", d)
    ELSE IF \E k \in DOMAIN form.interviewer_ids :
                form.interviewer_ids[k] \notin Ids(d.interviewers)
         THEN [HTTPException(404, "interviewer not found",
                             FlushNewForm(d, form, <<>>, orm, 201).db)
                  EXCEPT !.commits = 1]
         ELSE FlushNewForm(d, form, form.interviewer_ids, orm, 201)

\* POST /api/interviews/
create_interview_form(d, form, orm) ==
    IF form.template_id \notin d.templates
    THEN HTTPException(404, "template not found", d)
    ELSE IF \E k \in DOMAIN form.interviewer_ids :
                form.interviewer_ids[k] \notin Ids(d.interviewers)
         THEN HTTPException(404, "interviewer not found", d)
         ELSE FlushNewForm(d, form, form.interviewer_ids, orm, 201)

\* create_interview that leaves out the ids that name no interviewer
create_interview_skipping(d, interview_data, orm) ==
    IF interview_data.template_id \notin d.templates
    THEN HTTPException(404, "template not found", d)
    ELSE FlushNewForm(d, interview_data,
                      SelectSeq(interview_data.interviewer_ids,
                                LAMBDA i : i \in Ids(d.interviewers)),
                      orm, Returned(d).status)

\* InterviewService.create_interview: the form object is built first and the
\* interviewers are appended as they are found; a missing one raises before
\* db.add, so nothing of the half-built form reaches the database
create_interview(d, interview_data, orm) ==
    IF interview_data.template_id \notin d.templates
    THEN HTTPException(404, "template not found", d)
    ELSE LET ids == interview_data.interviewer_ids
             missing == {k \in DOMAIN ids : ids[k] \notin Ids(d.interviewers)}
         IN  IF missing # {}
             THEN HTTPException(404, "interviewer not found", d)
             ELSE FlushNewForm(d, interview_data, ids, orm, Returned(d).status)

\* DELETE /api/interviews/{interview_id}: db.delete(form) removes the form's
\* join rows and sets the foreign key of every Score, Evaluation and Feedback
\* of the form to NULL; all three columns are nullable=False
delete_interview_form(d, interview_id) ==
    IF interview_id \notin Ids(d.forms)
    THEN HTTPException(404, "form not found", d)
    ELSE IF \E r \in d.scores \cup d.evaluations \cup d.feedbacks :
                r.interview_form_id = interview_id
         THEN IntegrityError(d)
         ELSE Response(204, [d EXCEPT
                  !.forms = {f \in @ : f.id # interview_id},
                  !.interviewer_forms =
                      DeleteRows(@, {p \in DOMAIN @ : p[2] = interview_id})])

\* add_interviewer_to_form without its test of membership
add_interviewer_to_form_unchecked(d, interview_id, interviewer_id, orm) ==
    IF interview_id \notin Ids(d.forms)
    THEN HTTPException(404, "form not found", d)
    ELSE IF interviewer_id \notin Ids(d.interviewers)
    THEN HTTPException(404, "interviewer not found", d)
    ELSE LET ins == SecondaryInserts(FormInterviewers(d, interview_id),
                                     <<interviewer_id>>, orm)
         IN  IF ins.clash
             THEN IntegrityError(d)
             ELSE Returning(200, interview_id, [d EXCEPT !.interviewer_forms =
                                    InsertRows(@, [k \in DOMAIN ins.writes |-> <<ins.writes[k], interview_id>>])])

\* POST /api/interviews/{interview_id}/interviewers/{interviewer_id}
add_interviewer_to_form(d, interview_id, interviewer_id, orm) ==
    IF interview_id \notin Ids(d.forms)
    THEN HTTPException(404, "form not found", d)
    ELSE IF interviewer_id \notin Ids(d.interviewers)
    THEN HTTPException(404, "interviewer not found", d)
    ELSE IF interviewer_id \in FormInterviewers(d, interview_id)
    THEN HTTPException(400, "already a member", d)
    ELSE LET ins == SecondaryInserts(FormInterviewers(d, interview_id),
                                     <<interviewer_id>>, orm)
         IN  IF ins.clash
             THEN IntegrityError(d)
             ELSE Returning(200, interview_id, [d EXCEPT !.interviewer_forms =
                                    InsertRows(@, [k \in DOMAIN ins.writes |-> <<ins.writes[k], interview_id>>])])

\* add_interviewer_to_form from form.interviewers.append(interviewer) on,
\* for a request whose queries found the form, the interviewer and the
\* members `loaded`, the interviewer not among them: the flush INSERTs into
\* the join table as it is at the commit
add_interviewer_to_form_commit(d, interview_id, interviewer_id, loaded, orm) ==
    LET ins == FlushSecondary(FormInterviewers(d, interview_id), loaded,
                              <<interviewer_id>>, orm)
    IN  IF interview_id \notin Ids(d.forms) \/ interviewer_id \notin Ids(d.interviewers)
           \/ ins.clash
        THEN IntegrityError(d)
        ELSE Returning(200, interview_id, [d EXCEPT !.interviewer_forms = InsertRows(@,
                          [k \in DOMAIN ins.writes |-> <<ins.writes[k], interview_id>>])])

\* DELETE /api/interviews/{interview_id}/interviewers/{interviewer_id}
remove_interviewer_from_form(d, interview_id, interviewer_id) ==
    IF interview_id \notin Ids(d.forms)
    THEN HTTPException(404, "form not found", d)
    ELSE IF interviewer_id \notin Ids(d.interviewers)
    THEN HTTPException(404, "interviewer not found", d)
    ELSE IF interviewer_id \notin FormInterviewers(d, interview_id)
    THEN HTTPException(404, "not a member", d)
    ELSE Response(204, [d EXCEPT !.interviewer_forms =
                           DeleteRows(@, {<<interviewer_id, interview_id>>})])

\* add_score without its test that the interviewer is on the form
add_score_unchecked(d, interview_id, score) ==
    IF interview_id \notin Ids(d.forms)
    THEN HTTPException(404, "form not found", d)
    ELSE IF score.interviewer_id \notin Ids(d.interviewers)
    THEN HTTPException(404, "interviewer not found", d)
    ELSE IF score.question_id \notin d.questions
    THEN HTTPException(404, "question not found", d)
    ELSE LET d1 == Draw(d, "scores")
             row == [id |-> NextId(d, "scores"), question_id |-> score.question_id,
                     value |-> score.value, comment |-> score.comment,
                     interviewer_id |-> score.interviewer_id,
                     interview_form_id |-> interview_id, evaluation_id |-> NULL]
         IN  Returning(201, row.id, [d1 EXCEPT !.scores = @ \cup {row}])

\* add_score that looks the question up before it tests the membership
add_score_question_first(d, interview_id, score) ==
    IF interview_id \notin Ids(d.forms)
    THEN HTTPException(404, "form not found", d)
    ELSE IF score.interviewer_id \notin Ids(d.interviewers)
    THEN HTTPException(404, "interviewer not found", d)
    ELSE IF score.question_id \notin d.questions
    THEN HTTPException(404, "question not found", d)
    ELSE IF score.interviewer_id \notin FormInterviewers(d, interview_id)
    THEN HTTPException(400, "not a member", d)
    ELSE LET d1 == Draw(d, "scores")
             row == [id |-> NextId(d, "scores"), question_id |-> score.question_id,
                     value |-> score.value, comment |-> score.comment,
                     interviewer_id |-> score.interviewer_id,
                     interview_form_id |-> interview_id, evaluation_id |-> NULL]
         IN  Returning(201, row.id, [d1 EXCEPT !.scores = @ \cup {row}])

\* POST /api/interviews/{interview_id}/scores
add_score(d, interview_id, score) ==
    IF interview_id \notin Ids(d.forms)
    THEN HTTPException(404, "form not found", d)
    ELSE IF score.interviewer_id \notin Ids(d.interviewers)
    THEN HTTPException(404, "interviewer not found", d)
    ELSE IF score.interviewer_id \notin FormInterviewers(d, interview_id)
    THEN HTTPException(400, "not a member", d)
    ELSE IF score.question_id \notin d.questions
    THEN HTTPException(404, "question not found", d)
    ELSE LET d1 == Draw(d, "scores")
             row == [id |-> NextId(d, "scores"), question_id |-> score.question_id,
                     value |-> score.value, comment |-> score.comment,
                     interviewer_id |-> score.interviewer_id,
                     interview_form_id |-> interview_id, evaluation_id |-> NULL]
         IN  Returning(201, row.id, [d1 EXCEPT !.scores = @ \cup {row}])

\* InterviewService.add_interviewer_to_form
service_add_interviewer_to_form(d, interview_id, interviewer_id, orm) ==
    IF interview_id \notin Ids(d.forms)
    THEN HTTPException(404, "form not found", d)
    ELSE IF interviewer_id \notin Ids(d.interviewers)
    THEN HTTPException(404, "interviewer not found", d)
    ELSE IF interviewer_id \in FormInterviewers(d, interview_id)
    THEN HTTPException(400, "already a member", d)
    ELSE LET ins == SecondaryInserts(FormInterviewers(d, interview_id),
                                     <<interviewer_id>>, orm)
         IN  IF ins.clash
             THEN IntegrityError(d)
             ELSE Returning(Returned(d).status, interview_id,
                            [d EXCEPT !.interviewer_forms =
                                InsertRows(@, [k \in DOMAIN ins.writes |-> <<ins.writes[k], interview_id>>])])

\* InterviewService.remove_interviewer_from_form
service_remove_interviewer_from_form(d, interview_id, interviewer_id) ==
    IF interview_id \notin Ids(d.forms)
    THEN HTTPException(404, "form not found", d)
    ELSE IF interviewer_id \notin Ids(d.interviewers)
    THEN HTTPException(404, "interviewer not found", d)
    ELSE IF interviewer_id \notin FormInterviewers(d, interview_id)
    THEN HTTPException(404, "not a member", d)
    ELSE Returned([d EXCEPT !.interviewer_forms =
                     DeleteRows(@, {<<interviewer_id, interview_id>>})])

\* InterviewService.add_score
service_add_score(d, interview_id, score_data) ==
    IF interview_id \notin Ids(d.forms)
    THEN HTTPException(404, "form not found", d)
    ELSE IF score_data.interviewer_id \notin Ids(d.interviewers)
    THEN HTTPException(404, "interviewer not found", d)
    ELSE IF score_data.interviewer_id \notin FormInterviewers(d, interview_id)
    THEN HTTPException(400, "not a member", d)
    ELSE IF score_data.question_id \notin d.questions
    THEN HTTPException(404, "question not found", d)
    ELSE LET d1 == Draw(d, "scores")
             row == [id |-> NextId(d, "scores"), question_id |-> score_data.question_id,
                     value |-> score_data.value, comment |-> score_data.comment,
                     interviewer_id |-> score_data.interviewer_id,
                     interview_form_id |-> interview_id, evaluation_id |-> NULL]
         IN  Returning(Returned(d).status, row.id, [d1 EXCEPT !.scores = @ \cup {row}])

\* GET /api/interviews/{interview_id}/scores: the ids of the rows returned;
\* scan is the order in which the database goes through the table
get_scores(d, interview_id, params, scan) ==
    IF interview_id \notin Ids(d.forms)
    THEN [status |-> 404, detail |-> "form not found", id |-> NULL, db |-> d,
          body |-> <<>>]
    ELSE LET passing == {s.id : s \in {r \in d.scores :
                 /\ r.interview_form_id = interview_id
                 /\ Truthy(params, "interviewer_id")
                       => SqlEq(r.interviewer_id, params.interviewer_id)}}
         IN  [status |-> 200, detail |-> "", id |-> NULL, db |-> d,
              body |-> SelectSeq(scan, LAMBDA id : id \in passing)]

\* POST /api/interviews/{interview_id}/evaluations
add_evaluation(d, interview_id, evaluation) ==
    IF interview_id \notin Ids(d.forms)
    THEN HTTPException(404, "form not found", d)
    ELSE LET d1 == Draw(d, "evaluations")
             row == [id |-> NextId(d, "evaluations"),
                     total_score |-> evaluation.total_score,
                     passed |-> evaluation.passed,
                     minimal_rate |-> evaluation.minimal_rate,
                     interview_form_id |-> interview_id]
         IN  Returning(201, row.id, [d1 EXCEPT !.evaluations = @ \cup {row}])

\* ------------------------------------------------------------------ feedback and phrases
\* POST /api/interviews/phrases
create_phrase(d, phrase) ==
    LET d1 == Draw(d, "phrases")
        row == [id |-> NextId(d, "phrases"), text |-> phrase.text,
                category |-> phrase.category, feedback_id |-> NULL]
    IN  Returning(201, row.id, [d1 EXCEPT !.phrases = @ \cup {row}])

\* Feedback.phrases is one-to-many over predefined_phrases.feedback_id: the
\* phrases of a feedback are the rows that hold its id
FeedbackPhrases(d, feedback_id) == {p.id : p \in {x \in d.phrases : x.feedback_id = feedback_id}}

\* the ids of a request's list that name an existing phrase ("if phrase:")
FoundPhrases(d, phrase_ids) == Range(phrase_ids) \cap Ids(d.phrases)

\* SetPhrases when the collection is not emptied before the appends
SetPhrases_kept(rows, feedback_id, appended) ==
    {IF p.id \in appended THEN [p EXCEPT !.feedback_id = feedback_id] ELSE p : p \in rows}

\* the flush of feedback.phrases: a phrase appended gets the feedback's id, a
\* phrase taken out of the collection and not appended again gets NULL
SetPhrases(rows, feedback_id, appended) ==
    {IF p.id \in appended THEN [p EXCEPT !.feedback_id = feedback_id]
     ELSE IF p.feedback_id = feedback_id THEN [p EXCEPT !.feedback_id = NULL]
     ELSE p : p \in rows}

\* the flush of a new Feedback with its phrases
FlushNewFeedback(d, interview_id, text, phrase_ids, ok) ==
    LET id == NextId(d, "feedbacks")
        d1 == Draw(d, "feedbacks")
        row == [id |-> id, text |-> text, interview_form_id |-> interview_id]
    IN  Returning(ok, id,
                  [d1 EXCEPT !.feedbacks = @ \cup {row},
                             !.phrases = SetPhrases(@, id, FoundPhrases(d, phrase_ids))])

\* add_feedback without its test for an existing feedback
add_feedback_unchecked(d, interview_id, feedback) ==
    IF interview_id \notin Ids(d.forms)
    THEN HTTPException(404, "form not found", d)
    ELSE FlushNewFeedback(d, interview_id, feedback.text,
                          feedback.predefined_phrase_ids, 201)

\* add_feedback that refuses a second feedback only after it has written the
\* new text into the existing row
add_feedback_overwriting(d, interview_id, feedback) ==
    IF interview_id \notin Ids(d.forms)
    THEN HTTPException(404, "form not found", d)
    ELSE IF \E r \in d.feedbacks : r.interview_form_id = interview_id
    THEN HTTPException(400, "feedback exists",
             [d EXCEPT !.feedbacks =
                 {IF r.interview_form_id = interview_id
                  THEN [r EXCEPT !.text = feedback.text] ELSE r : r \in @}])
    ELSE FlushNewFeedback(d, interview_id, feedback.text,
                          feedback.predefined_phrase_ids, 201)

\* add_feedback that refuses a request naming a phrase that does not exist
add_feedback_strict(d, interview_id, feedback) ==
    IF interview_id \notin Ids(d.forms)
    THEN HTTPException(404, "form not found", d)
    ELSE IF \E r \in d.feedbacks : r.interview_form_id = interview_id
    THEN HTTPException(400, "feedback exists", d)
    ELSE IF Range(feedback.predefined_phrase_ids) \ Ids(d.phrases) # {}
    THEN HTTPException(404, "phrase not found", d)
    ELSE FlushNewFeedback(d, interview_id, feedback.text,
                          feedback.predefined_phrase_ids, 201)

\* POST /api/interviews/{interview_id}/feedback
add_feedback(d, interview_id, feedback) ==
    IF interview_id \notin Ids(d.forms)
    THEN HTTPException(404, "form not found", d)
    ELSE IF \E r \in d.feedbacks : r.interview_form_id = interview_id
    THEN HTTPException(400, "feedback exists", d)
    ELSE FlushNewFeedback(d, interview_id, feedback.text,
                          feedback.predefined_phrase_ids, 201)

\* add_feedback_commit when feedbacks.interview_form_id is unique
add_feedback_commit_unique(d, interview_id, text, found) ==
    LET id == NextId(d, "feedbacks")
        d1 == Draw(d, "feedbacks")
        row == [id |-> id, text |-> text, interview_form_id |-> interview_id]
    IN  IF interview_id \notin Ids(d.forms)
           \/ \E r \in d.feedbacks : r.interview_form_id = interview_id
        THEN IntegrityError(d1)
        ELSE Returning(201, id, [d1 EXCEPT !.feedbacks = @ \cup {row},
                                           !.phrases = SetPhrases(@, id, found)])

\* add_feedback from Feedback(...) on, for a request whose queries found the
\* form, no feedback of the form, and the phrases `found`: the INSERT draws
\* an id; feedbacks.interview_form_id is a foreign key and is not unique
add_feedback_commit(d, interview_id, text, found) ==
    LET id == NextId(d, "feedbacks")
        d1 == Draw(d, "feedbacks")
        row == [id |-> id, text |-> text, interview_form_id |-> interview_id]
    IN  IF interview_id \notin Ids(d.forms)
        THEN IntegrityError(d1)
        ELSE Returning(201, id, [d1 EXCEPT !.feedbacks = @ \cup {row},
                                           !.phrases = SetPhrases(@, id, found)])

\* InterviewService.add_feedback: an existing feedback is updated in place
\* (.first() of the form's feedback rows)
service_add_feedback(d, interview_id, feedback_data) ==
    IF interview_id \notin Ids(d.forms)
    THEN HTTPException(404, "form not found", d)
    ELSE LET found == {r \in d.feedbacks : r.interview_form_id = interview_id}
         IN  IF found # {}
             THEN LET existing == CHOOSE r \in found : \A o \in found : r.id <= o.id
                      updated == [existing EXCEPT !.text = feedback_data.text]
                  IN  Returning(Returned(d).status, existing.id, [d EXCEPT
                          !.feedbacks = (@ \ {existing}) \cup {updated},
                          !.phrases = SetPhrases(@, existing.id,
                              FoundPhrases(d, feedback_data.predefined_phrase_ids))])
             ELSE FlushNewFeedback(d, interview_id, feedback_data.text,
                                   feedback_data.predefined_phrase_ids,
                                   Returned(d).status)

\* ------------------------------------------------------------------ template questions
\* POST /api/templates/{template_id}/questions: every listed question is
\* appended to template.questions, with no test of membership
add_questions_to_template(d, template_id, questions_list, orm) ==
    IF template_id \notin d.templates
    THEN HTTPException(404, "template not found", d)
    ELSE IF \E k \in DOMAIN questions_list : questions_list[k] \notin d.questions
    THEN HTTPException(404, "question not found", d)
    ELSE LET ins == SecondaryInserts(TemplateQuestions(d, template_id),
                                     questions_list, orm)
         IN  IF ins.clash
             THEN IntegrityError(d)
             ELSE Response(200, [d EXCEPT !.template_questions =
                                    @ \cup {<<template_id, q>> : q \in ins.rows}])

\* TemplateService.add_questions_to_template
service_add_questions_to_template(d, template_id, question_ids, orm) ==
    IF template_id \notin d.templates
    THEN HTTPException(404, "template not found", d)
    ELSE IF \E k \in DOMAIN question_ids : question_ids[k] \notin d.questions
    THEN HTTPException(404, "question not found", d)
    ELSE LET ins == SecondaryInserts(TemplateQuestions(d, template_id),
                                     question_ids, orm)
         IN  IF ins.clash
             THEN IntegrityError(d)
             ELSE Returning(Returned(d).status, template_id,
                            [d EXCEPT !.template_questions =
                                @ \cup {<<template_id, q>> : q \in ins.rows}])

\* the flush and the commit of a clone: db.flush() INSERTs the new template
\* (its id is drawn), the commit INSERTs one join row for every question of
\* the source, appended in the order `order` in which they were loaded
FlushClone(d, template_id, template_data, order, orm, ok) ==
    LET id == NextId(d, "templates")
        d1 == Draw(d, "templates")
        row == [name |-> template_data.name, description |-> template_data.description,
                updated_at |-> CreatedAt]
        ins == SecondaryInserts({}, order, orm)
    IN  IF ins.clash
        THEN IntegrityError(d1)
        ELSE Returning(ok, id,
                       [d1 EXCEPT !.templates = @ \cup {id},
                                  !.template_columns = With(@, id, row),
                                  !.template_questions = @ \cup {<<id, q>> : q \in ins.rows}])

\* clone_template that gives the new template no questions
clone_template_empty(d, template_id, template_data, order, orm) ==
    IF template_id \notin d.templates
    THEN HTTPException(404, "source template not found", d)
    ELSE FlushClone(d, template_id, template_data, <<>>, orm, 200)

\* POST /api/templates/{template_id}/clone
clone_template(d, template_id, template_data, order, orm) ==
    IF template_id \notin d.templates
    THEN HTTPException(404, "source template not found", d)
    ELSE FlushClone(d, template_id, template_data, order, orm, 200)

\* TemplateService.clone_template
service_clone_template(d, template_id, new_template_data, order, orm) ==
    IF template_id \notin d.templates
    THEN HTTPException(404, "template not found", d)
    ELSE FlushClone(d, template_id, new_template_data, order, orm, Returned(d).status)

\* DELETE /api/templates/{template_id}/questions/{question_id}
remove_question_from_template(d, template_id, question_id) ==
    IF template_id \notin d.templates
    THEN HTTPException(404, "template not found", d)
    ELSE IF question_id \notin d.questions
    THEN HTTPException(404, "question not found", d)
    ELSE IF question_id \notin TemplateQuestions(d, template_id)
    THEN HTTPException(404, "not in template", d)
    ELSE Response(204, [d EXCEPT !.template_questions =
                           @ \ {<<template_id, question_id>>}])

\* delete_template when nothing keeps a template that forms refer to
delete_template_unchecked(d, template_id) ==
    IF template_id \notin d.templates
    THEN HTTPException(404, "template not found", d)
    ELSE Response(204, [d EXCEPT
             !.templates = @ \ {template_id},
             !.template_columns = Without(@, template_id),
             !.template_questions = {p \in @ : p[1] # template_id}])

\* DELETE /api/templates/{template_id}: db.delete(template) removes the
\* template's join rows and sets interview_forms.template_id of its forms to
\* NULL; the column is nullable=False
delete_template(d, template_id) ==
    IF template_id \notin d.templates
    THEN HTTPException(404, "template not found", d)
    ELSE IF \E f \in d.forms : f.template_id = template_id
    THEN IntegrityError(d)
    ELSE Response(204, [d EXCEPT
             !.templates = @ \ {template_id},
             !.template_columns = Without(@, template_id),
             !.template_questions = {p \in @ : p[1] # template_id}])

\* DELETE /api/questions/{question_id}: db.delete(question) removes the
\* question's join rows; scores.question_id is a foreign key to questions.id
\* that no relationship maintains
delete_question(d, question_id) ==
    IF question_id \notin d.questions
    THEN HTTPException(404, "question not found", d)
    ELSE IF \E r \in d.scores : r.question_id = question_id
    THEN IntegrityError(d)
    ELSE Response(204, [d EXCEPT
             !.questions = @ \ {question_id},
             !.question_columns = Without(@, question_id),
             !.template_questions = {p \in @ : p[2] # question_id}])

\* ------------------------------------------------------------------ updates
(***************************************************************************)
(* An update request is a pydantic model whose fields are all Optional:    *)
(* `values` holds the fields that the request supplied with a value,       *)
(* `nulls` the fields that it supplied as null; the other fields are       *)
(* unset.                                                                  *)
(***************************************************************************)
\* model.dict(): every field of the model, the unset ones as None
dict_with_unset(request, fields) == fields

\* model.dict(exclude_unset=True): the keys of the fields that were supplied
dict_exclude_unset(request, fields) == (DOMAIN request.values) \cup request.nulls

\* for key, value in update_data.items(): setattr(row, key, value), then
\* row.updated_at = utcnow()
SetAttrs(row, request, keys, now) ==
    [c \in DOMAIN row |->
        IF c = "updated_at" THEN now
        ELSE IF c \in keys
        THEN (IF c \in DOMAIN request.values THEN request.values[c] ELSE None)
        ELSE row[c]]

\* the keys that are set to None
SetToNone(request, keys) == keys \ DOMAIN request.values

\* the fields of the update models and the columns that are nullable=False
InterviewFormUpdateFields == {"candidate_name", "position", "interview_date"}
TemplateUpdateFields == {"name", "description"}
QuestionUpdateFields == {"text", "docs_reference"}
NotNullable == {"candidate_name", "position", "interview_date", "name", "text"}

\* PUT /api/interviews/{interview_id}
update_interview_form(d, interview_id, form, now) ==
    IF interview_id \notin Ids(d.forms)
    THEN HTTPException(404, "form not found", d)
    ELSE LET db_form == Row(d.forms, interview_id)
             update_data == dict_exclude_unset(form, InterviewFormUpdateFields)
         IN  IF SetToNone(form, update_data) \cap NotNullable # {}
             THEN IntegrityError(d)
             ELSE Returning(200, interview_id, [d EXCEPT !.forms =
                      (@ \ {db_form}) \cup {SetAttrs(db_form, form, update_data, now)}])

\* PUT /api/templates/{template_id}
update_template(d, template_id, template, now) ==
    IF template_id \notin d.templates
    THEN HTTPException(404, "template not found", d)
    ELSE LET update_data == dict_exclude_unset(template, TemplateUpdateFields)
         IN  IF SetToNone(template, update_data) \cap NotNullable # {}
             THEN IntegrityError(d)
             ELSE Returning(200, template_id, [d EXCEPT !.template_columns[template_id] =
                      SetAttrs(@, template, update_data, now)])

\* PUT /api/questions/{question_id}
update_question(d, question_id, question, now) ==
    IF question_id \notin d.questions
    THEN HTTPException(404, "question not found", d)
    ELSE LET update_data == dict_exclude_unset(question, QuestionUpdateFields)
         IN  IF SetToNone(question, update_data) \cap NotNullable # {}
             THEN IntegrityError(d)
             ELSE Returning(200, question_id, [d EXCEPT !.question_columns[question_id] =
                      SetAttrs(@, question, update_data, now)])

\* ------------------------------------------------------------------ PeopleForce
\* what the remote may do with a request: no response at all (the transport
\* fails), or a response with a status and a body that is JSON or is not; a
\* 204 response has no body
RemoteStatuses == {200, 201, 204, 400, 404, 500}
Replies == {[kind |-> "transport_error", status_code |-> NULL, json_body |-> FALSE]}
           \cup {r \in [kind : {"response"}, status_code : RemoteStatuses,
                        json_body : BOOLEAN] : r.status_code = 204 => ~r.json_body}

\* PeopleForceClient.update_candidate_notes: what the call raises ("none":
\* it returns response.json())
update_candidate_notes(candidate_id, notes, reply) ==
    IF reply.kind = "transport_error"
    THEN [raised |-> "TransportError", status_code |-> NULL]
    ELSE IF reply.status_code \notin {200, 201, 204}
    THEN [raised |-> "HTTPException", status_code |-> reply.status_code]
    ELSE IF ~reply.json_body
    THEN [raised |-> "JSONDecodeError", status_code |-> NULL]
    ELSE [raised |-> "none", status_code |-> reply.status_code]

\* the PATCH that update_candidate_notes issues
NotesRequest(candidate_id, notes) ==
    [method |-> "PATCH", candidate_id |-> candidate_id, json |-> [notes |-> notes]]

\* interview_date.strftime('%Y-%m-%d %H:%M')
strftime(dt) == <<dt.year, dt.month, dt.day, dt.hour, dt.minute>>

\* the notes text, one element per piece that the handler appends
InterviewerLines(d, iv_order) ==
    [k \in DOMAIN iv_order |->
        [part |-> "interviewer", name |-> Row(d.interviewers, iv_order[k]).name,
         position |-> Row(d.interviewers, iv_order[k]).position]]

\* the evaluation lines with a label computed from the two scores
EvaluationLines_by_score(d, ev_order) ==
    IF Len(ev_order) = 0 THEN <<>>
    ELSE LET line(k) ==
                 LET ev == Row(d.evaluations, ev_order[(k + 1) \div 2])
                 IN  IF k % 2 = 1
                     THEN [part |-> "score", total_score |-> ev.total_score,
                           minimal_rate |-> ev.minimal_rate, evaluation |-> ev.id]
                     ELSE [part |-> "result", evaluation |-> ev.id,
                           text |-> IF ev.total_score >= ev.minimal_rate
                                    THEN "Proishov" ELSE "Ne proishov"]
         IN  [k \in 1..(2 * Len(ev_order)) |-> line(k)]

EvaluationLines(d, ev_order) ==
    IF Len(ev_order) = 0 THEN <<>>
    ELSE LET line(k) ==
                 LET ev == Row(d.evaluations, ev_order[(k + 1) \div 2])
                 IN  IF k % 2 = 1
                     THEN [part |-> "score", total_score |-> ev.total_score,
                           minimal_rate |-> ev.minimal_rate, evaluation |-> ev.id]
                     ELSE [part |-> "result", evaluation |-> ev.id,
                           text |-> IF ev.passed THEN "Proishov" ELSE "Ne proishov"]
         IN  [k \in 1..(2 * Len(ev_order)) |-> line(k)]

FeedbackLines(d, found, ph_order) ==
    IF found = {} THEN <<>>
    ELSE LET feedback == CHOOSE r \in found : TRUE
         IN  <<[part |-> "feedback_title"], [part |-> "feedback", text |-> feedback.text]>>
             \o (IF Len(ph_order) = 0 THEN <<>>
                 ELSE <<[part |-> "recommendations_title"]>>
                      \o [k \in DOMAIN ph_order |->
                            [part |-> "phrase", text |-> Row(d.phrases, ph_order[k]).text]])

\* the notes with the feedback written before the evaluations
Notes_feedback_first(d, form, iv_order, ev_order, found, ph_order) ==
    <<[part |-> "header"], [part |-> "position", text |-> form.position],
      [part |-> "date", text |-> strftime(form.interview_date)],
      [part |-> "interviewers_title"]>>
    \o InterviewerLines(d, iv_order)
    \o FeedbackLines(d, found, ph_order)
    \o <<[part |-> "scores_title"]>>
    \o EvaluationLines(d, ev_order)

Notes(d, form, iv_order, ev_order, found, ph_order) ==
    <<[part |-> "header"], [part |-> "position", text |-> form.position],
      [part |-> "date", text |-> strftime(form.interview_date)],
      [part |-> "interviewers_title"]>>
    \o InterviewerLines(d, iv_order)
    \o <<[part |-> "scores_title"]>>
    \o EvaluationLines(d, ev_order)
    \o FeedbackLines(d, found, ph_order)

\* what the queries of the sync handler may return for a form: the
\* interviewers, the evaluations and the phrases in some order, and one
\* feedback of the form if it has any
SyncReads(d, interview_id) ==
    {[iv_order |-> io, ev_order |-> eo, found |-> fb, ph_order |-> po] :
        io \in Orders(FormInterviewers(d, interview_id)),
        eo \in Orders({e.id : e \in {x \in d.evaluations : x.interview_form_id = interview_id}}),
        fb \in {x \in {{}} : \A r \in d.feedbacks : r.interview_form_id # interview_id},
        po \in {<<>>}}
    \cup
    UNION {{[iv_order |-> io, ev_order |-> eo, found |-> {fb}, ph_order |-> po] :
              io \in Orders(FormInterviewers(d, interview_id)),
              eo \in Orders({e.id : e \in {x \in d.evaluations : x.interview_form_id = interview_id}}),
              po \in Orders(FeedbackPhrases(d, fb.id))} :
           fb \in {r \in d.feedbacks : r.interview_form_id = interview_id}}

\* SyncStatus when an HTTPException of the client is let through
SyncStatus_passed_through(call) ==
    IF call.raised = "none" THEN 200
    ELSE IF call.raised = "HTTPException" THEN call.status_code ELSE 500

\* the try/except around the remote call: whatever it raises becomes a 500
SyncStatus(call) == IF call.raised = "none" THEN 200 ELSE 500

\* a sync handler that sends the notes again after a failure and uploads an
\* attachment after a success
sync_interview_to_peopleforce_retrying(d, interview_id, reads, reply) ==
    IF interview_id \notin Ids(d.forms)
    THEN [status |-> 404, detail |-> "form not found", id |-> NULL, db |-> d,
          remote |-> <<>>]
    ELSE LET form == Row(d.forms, interview_id)
             notes == Notes(d, form, reads.iv_order, reads.ev_order,
                            reads.found, reads.ph_order)
             call == update_candidate_notes(form.candidate_id, notes, reply)
         IN  [status |-> SyncStatus(call),
              detail |-> IF call.raised = "none" THEN "" ELSE call.raised,
              id |-> NULL,
              db |-> d,
              remote |-> IF call.raised = "none"
                         THEN <<NotesRequest(form.candidate_id, notes),
                                [method |-> "POST", candidate_id |-> form.candidate_id,
                                 json |-> [notes |-> notes]]>>
                         ELSE <<NotesRequest(form.candidate_id, notes),
                                NotesRequest(form.candidate_id, notes)>>]

\* a sync handler that records the synchronisation in the form's row
sync_interview_to_peopleforce_recording(d, interview_id, reads, reply) ==
    IF interview_id \notin Ids(d.forms)
    THEN [status |-> 404, detail |-> "form not found", id |-> NULL, db |-> d,
          remote |-> <<>>]
    ELSE LET form == Row(d.forms, interview_id)
             notes == Notes(d, form, reads.iv_order, reads.ev_order,
                            reads.found, reads.ph_order)
             call == update_candidate_notes(form.candidate_id, notes, reply)
         IN  [status |-> SyncStatus(call),
              detail |-> IF call.raised = "none" THEN "" ELSE call.raised,
              id |-> NULL,
              db |-> [d EXCEPT !.forms =
                         (@ \ {form}) \cup {[form EXCEPT !.position = "synced"]}],
              remote |-> <<NotesRequest(form.candidate_id, notes)>>]

\* POST /api/integrations/peopleforce/{interview_id}/sync: the response
\* status, the database (never written) and the remote requests issued
sync_interview_to_peopleforce(d, interview_id, reads, reply) ==
    IF interview_id \notin Ids(d.forms)
    THEN [status |-> 404, detail |-> "form not found", id |-> NULL, db |-> d,
          remote |-> <<>>]
    ELSE LET form == Row(d.forms, interview_id)
             notes == Notes(d, form, reads.iv_order, reads.ev_order,
                            reads.found, reads.ph_order)
             call == update_candidate_notes(form.candidate_id, notes, reply)
         IN  [status |-> SyncStatus(call),
              detail |-> IF call.raised = "none" THEN "" ELSE call.raised,
              id |-> NULL,
              db |-> d,
              remote |-> <<NotesRequest(form.candidate_id, notes)>>]

\* ------------------------------------------------------------------ candidates
\* the candidate objects of the remote: with and without the keys the
\* endpoints read
CandidateObjects ==
    {[id |-> "pf-1001", full_name |-> "Ada"], [id |-> "pf-1002"], [full_name |-> "Ada"]}

\* what the remote may answer to a GET: nothing (the transport fails), or a
\* status with a body that is not JSON or is one of the given values
NotJSON == [is_json |-> FALSE, value |-> <<>>]
GetReplies(bodies) ==
    {[kind |-> "transport_error", status_code |-> NULL, body |-> NotJSON]}
    \cup [kind : {"response"}, status_code : RemoteStatuses,
          body : {NotJSON} \cup {[is_json |-> TRUE, value |-> b] : b \in bodies}]

\* ClientGet when every 2xx status is taken for a success
ClientGet_any_2xx(reply) ==
    IF reply.kind = "transport_error"
    THEN [raised |-> "TransportError", status_code |-> NULL, json |-> <<>>]
    ELSE IF reply.status_code \notin {200, 201, 204}
    THEN [raised |-> "HTTPException", status_code |-> reply.status_code, json |-> <<>>]
    ELSE IF ~reply.body.is_json
    THEN [raised |-> "JSONDecodeError", status_code |-> NULL, json |-> <<>>]
    ELSE [raised |-> "none", status_code |-> reply.status_code, json |-> reply.body.value]

\* PeopleForceClient.get_candidates and get_candidate: what the call raises
\* ("none": it returns response.json())
ClientGet(reply) ==
    IF reply.kind = "transport_error"
    THEN [raised |-> "TransportError", status_code |-> NULL, json |-> <<>>]
    ELSE IF reply.status_code # 200
    THEN [raised |-> "HTTPException", status_code |-> reply.status_code, json |-> <<>>]
    ELSE IF ~reply.body.is_json
    THEN [raised |-> "JSONDecodeError", status_code |-> NULL, json |-> <<>>]
    ELSE [raised |-> "none", status_code |-> reply.status_code, json |-> reply.body.value]

client_get_candidates(filters, reply) == ClientGet(reply)
client_get_candidate(candidate_id, reply) == ClientGet(reply)

\* CandidateResponse(id=candidate["id"], full_name=candidate.get("full_name", ""), ...)
CandidateResponse(candidate) ==
    [id |-> candidate.id,
     full_name |-> IF "full_name" \in DOMAIN candidate THEN candidate.full_name ELSE ""]

\* an endpoint that lets the client's exception through: an HTTPException
\* is answered with its status, any other exception with 500
Raised(call) ==
    [status |-> IF call.raised = "HTTPException" THEN call.status_code ELSE 500,
     detail |-> call.raised, id |-> NULL, result |-> <<>>]

\* GET /api/integrations/peopleforce/candidates
get_candidates(filters, reply) ==
    LET call == client_get_candidates(filters, reply)
    IN  IF call.raised # "none" THEN Raised(call)
        ELSE IF \E k \in DOMAIN call.json : "id" \notin DOMAIN call.json[k]
        THEN [status |-> 500, detail |-> "KeyError", id |-> NULL, result |-> <<>>]
        ELSE [status |-> 200, detail |-> "", id |-> NULL,
              result |-> [k \in DOMAIN call.json |-> CandidateResponse(call.json[k])]]

\* GET /api/integrations/peopleforce/candidates/{candidate_id}
get_candidate(candidate_id, reply) ==
    LET call == client_get_candidate(candidate_id, reply)
    IN  IF call.raised # "none" THEN Raised(call)
        ELSE IF "id" \notin DOMAIN call.json
        THEN [status |-> 500, detail |-> "KeyError", id |-> NULL, result |-> <<>>]
        ELSE [status |-> 200, detail |-> "", id |-> NULL,
              result |-> <<CandidateResponse(call.json)>>]

\* ------------------------------------------------------------------ requests
TemplateIds == 1..(MaxTemplates + 1)
QuestionIds == 1..(MaxQuestions + 1)
InterviewerIds == 1..(MaxInterviewers + 1)
FormIds == 1..(MaxForms + 1)
PhraseIds == 1..(MaxPhrases + 1)

Emails == {"jane@example.com", "omar@example.com"}
InterviewerNames == {"Jane Doe", "Omar Said"}
InterviewerPositions == {"Senior Engineer"}
Candidates == {"pf-1001"}
CandidateNames == {"Ada"}
Positions == {"Golang Engineer"}
Dates == {[year |-> 2024, month |-> 5, day |-> 17, hour |-> 9, minute |-> 30, second |-> 45]}
\* a float with one decimal is written in tenths: 85 is 8.5
ScoreValues == {85}
TotalScores == {60, 85}
MinimalRates == {70}
Texts == {"Strong candidate", "Needs practice"}
PhraseTexts == {"Clear communicator", "Fast learner"}

\* the requests are those of two people, each with their own email
InterviewerCreate ==
    {r \in [name : InterviewerNames, email : Emails, position : InterviewerPositions] :
        (r.name = "Jane Doe") = (r.email = "jane@example.com")}
InterviewFormCreate ==
    [candidate_id : Candidates, candidate_name : CandidateNames, position : Positions,
     interview_date : Dates, template_id : TemplateIds,
     interviewer_ids : SeqsUpTo(InterviewerIds, MaxListLen)]
ScoreCreate == [question_id : QuestionIds, value : ScoreValues, comment : {NULL},
                interviewer_id : InterviewerIds]
EvaluationCreate == [total_score : TotalScores, passed : BOOLEAN, minimal_rate : MinimalRates]
FeedbackCreate == [text : Texts, predefined_phrase_ids : SeqsUpTo(PhraseIds, MaxListLen)]
PredefinedPhraseCreate == [text : PhraseTexts, category : {NULL}]

\* the ids that a tag of a question may hold: none, a row's, a missing row's
TagIds == 0..(MaxTags + 1)
QuestionTexts == {"What is a goroutine?", "Explain GOPATH"}
\* a float with one decimal is written in tenths: 10 is the default 1.0
Weights == {10, 25}
DocsReferences == {None, "https://go.dev/doc"}
Priorities == {1, 3}
QuestionCreate ==
    [text : QuestionTexts, weight : Weights, docs_reference : DocsReferences,
     priority : Priorities, unit_id : TagIds, difficulty_id : TagIds,
     level_id : TagIds, group_id : TagIds]
\* a question with every default and no tag
PlainQuestion ==
    [text |-> "What is a goroutine?", weight |-> 10, docs_reference |-> None,
     priority |-> 1, unit_id |-> NULL, difficulty_id |-> NULL, level_id |-> NULL,
     group_id |-> NULL]
\* the questions that are created: written with every default or with none
QuestionRequests ==
    {q \in QuestionCreate :
        \/ [q EXCEPT !.unit_id = NULL, !.difficulty_id = NULL, !.level_id = NULL,
                     !.group_id = NULL] = PlainQuestion
        \/ (q.text # PlainQuestion.text /\ q.weight # 10
            /\ q.docs_reference # None /\ q.priority # 1)}
\* the query parameters of get_questions: each filter left out or supplied
FilterParams == UNION {[supplied -> TagIds] : supplied \in SUBSET DOMAIN ForeignKeys}
\* the requests that are served: at most MaxListLen filters, each 0 or the
\* id of a row
FilterRequests ==
    {p \in FilterParams : Cardinality(DOMAIN p) <= MaxListLen
                          /\ \A c \in DOMAIN p : p[c] <= MaxTags}
TextSearches == {None, "", "path"}
Skips == {0, 1}
Limits == {1, 100}
TemplateCreate == [name : {"Backend (copy)"}, description : {None}]
UnitCreate == [name : {"Platform"}]
DifficultyCreate == [name : {"hard"}]
SeniorityCreate == [name : {"Senior"}]
QuestionGroupCreate == [name : {"Concurrency"}]

\* ------------------------------------------------------------------ actions
\* the tables and the sequences are what a request left
Commit(d) ==
    /\ templates' = d.templates
    /\ questions' = d.questions
    /\ interviewers' = d.interviewers
    /\ forms' = d.forms
    /\ scores' = d.scores
    /\ evaluations' = d.evaluations
    /\ feedbacks' = d.feedbacks
    /\ phrases' = d.phrases
    /\ template_questions' = d.template_questions
    /\ interviewer_forms' = d.interviewer_forms
    /\ template_columns' = d.template_columns
    /\ question_columns' = d.question_columns
    /\ units' = d.units
    /\ difficulty_levels' = d.difficulty_levels
    /\ seniority_levels' = d.seniority_levels
    /\ question_groups' = d.question_groups
    /\ seq' = d.seq

\* a request was served: the tables and sequences are what the handler
\* left, and the operation, its response status and the number of ids of the
\* request that the handler skipped are recorded
Served(op, r, skipped) ==
    /\ Commit(r.db)
    /\ last' = [op |-> op, status |-> r.status, detail |-> r.detail, id |-> r.id,
                skipped |-> skipped]
    /\ UNCHANGED in_flight

Serve(op, r) == Served(op, r, 0)

\* how many ids of a feedback request name no phrase: the "if phrase:" of
\* the loop over predefined_phrase_ids skips them when the loop is reached
SkippedPhrases(d, r, phrase_ids) ==
    IF r.status \in {200, 201}
    THEN Cardinality(Range(phrase_ids) \ Ids(d.phrases))
    ELSE 0

CreateTemplate ==
    /\ seq["templates"] < MaxTemplates
    /\ Serve("create_template", create_template(DB))

CreateQuestion ==
    /\ seq["questions"] < MaxQuestions
    /\ \E question \in QuestionRequests :
          Serve("create_question", create_question(DB, question))

\* the question that was created has every default and no tag
PlainQuestionCreated ==
    /\ last.status = 201
    /\ [c \in QuestionFields |-> question_columns[last.id][c]] = PlainQuestion

GetQuestion ==
    \E question_id \in QuestionIds :
        Serve("get_question", get_question(DB, question_id))

GetQuestions ==
    \E skip \in Skips, limit \in Limits, params \in FilterRequests,
       text_search \in TextSearches :
        \E scan \in Orders(questions) :
            Serve("get_questions",
                  get_questions(DB, skip, limit, params, text_search, scan))

ServiceGetQuestions ==
    \E skip \in Skips, limit \in Limits, params \in FilterRequests,
       text_search \in TextSearches :
        \E scan \in Orders(questions) :
            Serve("service_get_questions",
                  service_get_questions(DB, skip, limit, params, text_search, scan))

CreateUnit ==
    /\ seq["units"] < MaxTags
    /\ \E unit \in UnitCreate : Serve("create_unit", create_unit(DB, unit))

CreateDifficulty ==
    /\ seq["difficulty_levels"] < MaxTags
    /\ \E difficulty \in DifficultyCreate :
          Serve("create_difficulty", create_difficulty(DB, difficulty))

CreateSeniority ==
    /\ seq["seniority_levels"] < MaxTags
    /\ \E seniority \in SeniorityCreate :
          Serve("create_seniority", create_seniority(DB, seniority))

CreateGroup ==
    /\ seq["question_groups"] < MaxTags
    /\ \E group \in QuestionGroupCreate :
          Serve("create_group", create_group(DB, group))

CreateInterviewer ==
    /\ seq["interviewers"] < MaxInterviewers
    /\ \E interviewer \in InterviewerCreate :
          Serve("create_interviewer", create_interviewer(DB, interviewer))

CreateInterviewForm ==
    /\ seq["forms"] < MaxForms
    /\ \E form \in InterviewFormCreate, orm \in OrmFlush :
          Serve("create_interview_form", create_interview_form(DB, form, orm))

ServiceCreateInterview ==
    /\ seq["forms"] < MaxForms
    /\ \E interview_data \in InterviewFormCreate, orm \in OrmFlush :
          Serve("create_interview", create_interview(DB, interview_data, orm))

DeleteInterviewForm ==
    \E interview_id \in FormIds :
        Serve("delete_interview_form", delete_interview_form(DB, interview_id))

AddInterviewerToForm ==
    \E interview_id \in FormIds, interviewer_id \in InterviewerIds, orm \in OrmFlush :
        Serve("add_interviewer_to_form",
              add_interviewer_to_form(DB, interview_id, interviewer_id, orm))

ServiceAddInterviewerToForm ==
    \E interview_id \in FormIds, interviewer_id \in InterviewerIds, orm \in OrmFlush :
        Serve("service_add_interviewer_to_form",
              service_add_interviewer_to_form(DB, interview_id, interviewer_id, orm))

RemoveInterviewerFromForm ==
    \E interview_id \in FormIds, interviewer_id \in InterviewerIds :
        Serve("remove_interviewer_from_form",
              remove_interviewer_from_form(DB, interview_id, interviewer_id))

ServiceRemoveInterviewerFromForm ==
    \E interview_id \in FormIds, interviewer_id \in InterviewerIds :
        Serve("service_remove_interviewer_from_form",
              service_remove_interviewer_from_form(DB, interview_id, interviewer_id))

AddScore ==
    /\ seq["scores"] < MaxScores
    /\ \E interview_id \in FormIds, score \in ScoreCreate :
          Serve("add_score", add_score(DB, interview_id, score))

ServiceAddScore ==
    /\ seq["scores"] < MaxScores
    /\ \E interview_id \in FormIds, score_data \in ScoreCreate :
          Serve("service_add_score", service_add_score(DB, interview_id, score_data))

\* the query parameter of get_scores: left out or supplied
ScoreParams ==
    UNION {[supplied -> 0..(MaxInterviewers + 1)] : supplied \in SUBSET {"interviewer_id"}}

GetScores ==
    \E interview_id \in FormIds, params \in ScoreParams :
        \E scan \in Orders(Ids(scores)) :
            Serve("get_scores", get_scores(DB, interview_id, params, scan))

AddEvaluation ==
    /\ seq["evaluations"] < MaxEvaluations
    /\ \E interview_id \in FormIds, evaluation \in EvaluationCreate :
          Serve("add_evaluation", add_evaluation(DB, interview_id, evaluation))

CreatePhrase ==
    /\ seq["phrases"] < MaxPhrases
    /\ \E phrase \in PredefinedPhraseCreate :
          Serve("create_phrase", create_phrase(DB, phrase))

\* a request is served while the ids it draws stay within MaxFeedbacks
AddFeedback ==
    \E interview_id \in FormIds, feedback \in FeedbackCreate :
        LET r == add_feedback(DB, interview_id, feedback)
        IN  /\ r.db.seq["feedbacks"] <= MaxFeedbacks
            /\ Served("add_feedback", r,
                      SkippedPhrases(DB, r, feedback.predefined_phrase_ids))

ServiceAddFeedback ==
    \E interview_id \in FormIds, feedback_data \in FeedbackCreate :
        LET r == service_add_feedback(DB, interview_id, feedback_data)
        IN  /\ r.db.seq["feedbacks"] <= MaxFeedbacks
            /\ Served("service_add_feedback", r,
                      SkippedPhrases(DB, r, feedback_data.predefined_phrase_ids))

AddQuestionsToTemplate ==
    \E template_id \in TemplateIds, questions_list \in SeqsUpTo(QuestionIds, MaxListLen),
       orm \in OrmFlush :
        Serve("add_questions_to_template",
              add_questions_to_template(DB, template_id, questions_list, orm))

ServiceAddQuestionsToTemplate ==
    \E template_id \in TemplateIds, question_ids \in SeqsUpTo(QuestionIds, MaxListLen),
       orm \in OrmFlush :
        Serve("service_add_questions_to_template",
              service_add_questions_to_template(DB, template_id, question_ids, orm))

\* source_template.questions in the order in which it was loaded
SourceOrders(d, template_id) ==
    IF template_id \in d.templates THEN Orders(TemplateQuestions(d, template_id))
    ELSE {<<>>}

CloneTemplate ==
    /\ seq["templates"] < MaxTemplates + MaxClones
    /\ \E template_id \in TemplateIds, template_data \in TemplateCreate, orm \in OrmFlush :
          \E order \in SourceOrders(DB, template_id) :
              Serve("clone_template",
                    clone_template(DB, template_id, template_data, order, orm))

ServiceCloneTemplate ==
    /\ seq["templates"] < MaxTemplates + MaxClones
    /\ \E template_id \in TemplateIds, new_template_data \in TemplateCreate,
          orm \in OrmFlush :
          \E order \in SourceOrders(DB, template_id) :
              Serve("service_clone_template",
                    service_clone_template(DB, template_id, new_template_data, order, orm))

RemoveQuestionFromTemplate ==
    \E template_id \in TemplateIds, question_id \in QuestionIds :
        Serve("remove_question_from_template",
              remove_question_from_template(DB, template_id, question_id))

DeleteTemplate ==
    \E template_id \in TemplateIds :
        Serve("delete_template", delete_template(DB, template_id))

DeleteQuestion ==
    \E question_id \in QuestionIds :
        Serve("delete_question", delete_question(DB, question_id))

\* the reads of a sync request for a form that does not exist: none
NoReads == [iv_order |-> <<>>, ev_order |-> <<>>, found |-> {}, ph_order |-> <<>>]
ReadsOf(d, interview_id) ==
    IF interview_id \in Ids(d.forms) THEN SyncReads(d, interview_id) ELSE {NoReads}

SyncInterviewToPeopleforce ==
    \E interview_id \in FormIds, reply \in Replies :
        \E reads \in ReadsOf(DB, interview_id) :
            Serve("sync_interview_to_peopleforce",
                  sync_interview_to_peopleforce(DB, interview_id, reads, reply))

\* two requests in flight at a time
Slots == 1..MaxInFlight

\* create_interviewer up to its query: a request whose email is stored is
\* answered at once, any other is in flight until its commit
BeginCreateInterviewer ==
    \E slot \in Slots, interviewer \in InterviewerCreate :
        /\ \A p \in in_flight : p.slot # slot
        /\ IF \E r \in interviewers : r.email = interviewer.email
           THEN Serve("create_interviewer", create_interviewer(DB, interviewer))
           ELSE /\ in_flight' = in_flight \cup
                       {[slot |-> slot, op |-> "create_interviewer", request |-> interviewer]}
                /\ UNCHANGED <<tables, seq, last>>

\* the commit of a create_interviewer request in flight
CommitCreateInterviewer ==
    \E p \in in_flight :
        /\ p.op = "create_interviewer"
        /\ seq["interviewers"] < MaxInterviewers
        /\ LET r == create_interviewer_commit(DB, p.request)
           IN  /\ Commit(r.db)
               /\ last' = [op |-> "create_interviewer_commit", status |-> r.status,
                           detail |-> r.detail, id |-> r.id, skipped |-> 0]
        /\ in_flight' = in_flight \ {p}

\* add_interviewer_to_form up to its test of membership: a request that
\* ends in 404 or 400 is answered at once, any other is in flight, with the
\* members it loaded, until its commit
BeginAddInterviewerToForm ==
    \E slot \in Slots, interview_id \in FormIds, interviewer_id \in InterviewerIds :
        /\ \A p \in in_flight : p.slot # slot
        /\ IF interview_id \notin Ids(forms) \/ interviewer_id \notin Ids(interviewers)
              \/ interviewer_id \in FormInterviewers(DB, interview_id)
           THEN Serve("add_interviewer_to_form",
                      add_interviewer_to_form(DB, interview_id, interviewer_id, "forward"))
           ELSE /\ in_flight' = in_flight \cup
                       {[slot |-> slot, op |-> "add_interviewer_to_form",
                         request |-> [interview_id |-> interview_id,
                                      interviewer_id |-> interviewer_id,
                                      loaded |-> FormInterviewers(DB, interview_id)]]}
                /\ UNCHANGED <<tables, seq, last>>

\* the commit of an add_interviewer_to_form request in flight
CommitAddInterviewerToForm ==
    \E p \in in_flight, orm \in OrmFlush :
        /\ p.op = "add_interviewer_to_form"
        /\ LET r == add_interviewer_to_form_commit(DB, p.request.interview_id,
                        p.request.interviewer_id, p.request.loaded, orm)
           IN  /\ Commit(r.db)
               /\ last' = [op |-> "add_interviewer_to_form_commit", status |-> r.status,
                           detail |-> r.detail, id |-> r.id, skipped |-> 0]
        /\ in_flight' = in_flight \ {p}

\* add_feedback up to its queries: a request for a missing form or for a
\* form that has a feedback is answered at once, any other is in flight
\* until its commit
BeginAddFeedback ==
    \E slot \in Slots, interview_id \in FormIds, feedback \in FeedbackCreate :
        /\ \A p \in in_flight : p.slot # slot
        /\ IF interview_id \notin Ids(forms)
              \/ \E r \in feedbacks : r.interview_form_id = interview_id
           THEN Serve("add_feedback", add_feedback(DB, interview_id, feedback))
           ELSE /\ in_flight' = in_flight \cup
                       {[slot |-> slot, op |-> "add_feedback",
                         request |-> [interview_id |-> interview_id,
                                      text |-> feedback.text,
                                      found |-> FoundPhrases(DB, feedback.predefined_phrase_ids)]]}
                /\ UNCHANGED <<tables, seq, last>>

\* the commit of an add_feedback request in flight
CommitAddFeedback ==
    \E p \in in_flight :
        /\ p.op = "add_feedback"
        /\ LET r == add_feedback_commit(DB, p.request.interview_id, p.request.text,
                                        p.request.found)
           IN  /\ r.db.seq["feedbacks"] <= MaxFeedbacks
               /\ Commit(r.db)
               /\ last' = [op |-> "add_feedback_commit", status |-> r.status,
                           detail |-> r.detail, id |-> r.id, skipped |-> 0]
        /\ in_flight' = in_flight \ {p}

ServiceCreateInterviewer ==
    /\ seq["interviewers"] < MaxInterviewers
    /\ \E interviewer_data \in InterviewerCreate :
          Serve("service_create_interviewer",
                service_create_interviewer(DB, interviewer_data))

\* the update requests: each field is unset, null or one new value
UpdateValues ==
    [candidate_name |-> "Grace", position |-> "React Engineer",
     interview_date |-> [year |-> 2024, month |-> 6, day |-> 3, hour |-> 14,
                         minute |-> 0, second |-> 0],
     name |-> "Frontend", description |-> "for juniors",
     text |-> "What is a channel?", docs_reference |-> "https://go.dev/doc"]
UpdateRequests(fields) ==
    UNION {{[values |-> [c \in supplied |-> UpdateValues[c]], nulls |-> nulls] :
               nulls \in SUBSET (fields \ supplied)} : supplied \in SUBSET fields}
\* datetime.datetime.utcnow() of an update request
UpdateTimes == {"2024-05-02 10:00"}

UpdateInterviewForm ==
    \E interview_id \in FormIds, form \in UpdateRequests(InterviewFormUpdateFields),
       now \in UpdateTimes :
        Serve("update_interview_form", update_interview_form(DB, interview_id, form, now))

UpdateTemplate ==
    \E template_id \in TemplateIds, template \in UpdateRequests(TemplateUpdateFields),
       now \in UpdateTimes :
        Serve("update_template", update_template(DB, template_id, template, now))

UpdateQuestion ==
    \E question_id \in QuestionIds, question \in UpdateRequests(QuestionUpdateFields),
       now \in UpdateTimes :
        Serve("update_question", update_question(DB, question_id, question, now))

\* the filters of a candidate search
Filters == {<<>>}
CandidateLists == SeqsUpTo(CandidateObjects, MaxListLen)

\* an endpoint without a session was served: the tables are left alone
Answer(op, r) ==
    /\ last' = [op |-> op, status |-> r.status, detail |-> r.detail, id |-> r.id,
                skipped |-> 0]
    /\ UNCHANGED <<tables, seq, in_flight>>

GetCandidates ==
    \E filters \in Filters, reply \in GetReplies(CandidateLists) :
        Answer("get_candidates", get_candidates(filters, reply))

GetCandidate ==
    \E candidate_id \in Candidates, reply \in GetReplies(CandidateObjects) :
        Answer("get_candidate", get_candidate(candidate_id, reply))

\* ------------------------------------------------------------------ specifications
Init ==
    /\ templates = {} /\ questions = {} /\ interviewers = {} /\ forms = {}
    /\ scores = {} /\ evaluations = {} /\ feedbacks = {} /\ phrases = {}
    /\ template_questions = {} /\ interviewer_forms = <<>>
    /\ template_columns = <<>> /\ question_columns = <<>>
    /\ units = {} /\ difficulty_levels = {} /\ seniority_levels = {}
    /\ question_groups = {}
    /\ seq = [t \in TableNames |-> 0]
    /\ in_flight = {}
    /\ last = [op |-> "none", status |-> NULL, detail |-> "", id |-> NULL,
               skipped |-> 0]

\* interview forms, their interviewers and their scores
Next ==
    \/ CreateTemplate
    \/ (CreateQuestion /\ PlainQuestionCreated')
    \/ CreateInterviewer
    \/ CreateInterviewForm
    \/ ServiceCreateInterview
    \/ DeleteInterviewForm
    \/ AddInterviewerToForm
    \/ ServiceAddInterviewerToForm
    \/ RemoveInterviewerFromForm
    \/ ServiceRemoveInterviewerFromForm
    \/ AddScore
    \/ ServiceAddScore

Spec == Init /\ [][Next]_vars

\* feedback and its phrases
FeedbackNext ==
    \/ CreateTemplate
    \/ CreateInterviewForm
    \/ CreatePhrase
    \/ AddFeedback
    \/ ServiceAddFeedback

FeedbackSpec == Init /\ [][FeedbackNext]_vars

\* the questions of a template
TemplateNext ==
    \/ CreateTemplate
    \/ (CreateQuestion /\ PlainQuestionCreated')
    \/ AddQuestionsToTemplate
    \/ ServiceAddQuestionsToTemplate
    \/ RemoveQuestionFromTemplate
    \/ CloneTemplate
    \/ ServiceCloneTemplate
    \/ DeleteTemplate
    \/ DeleteQuestion

TemplateSpec == Init /\ [][TemplateNext]_vars

\* the phrases of the synchronised forms differ in their texts
DistinctPhraseTexts == \A p \in phrases, q \in phrases : p.text = q.text => p.id = q.id

\* the last request named existing phrases only
NoPhraseSkipped == last.skipped = 0

\* the synchronisation of a form's results
SyncNext ==
    \/ CreateTemplate
    \/ CreateInterviewer
    \/ (seq["forms"] < MaxSyncForms /\ CreateInterviewForm)
    \/ AddEvaluation
    \/ (CreatePhrase /\ DistinctPhraseTexts')
    \/ (AddFeedback /\ NoPhraseSkipped')
    \/ SyncInterviewToPeopleforce

SyncSpec == Init /\ [][SyncNext]_vars

\* a template, a question and a form with its interviewer, created and updated
UpdateNext ==
    \/ CreateTemplate
    \/ (seq["questions"] < MaxUpdateRows /\ CreateQuestion /\ PlainQuestionCreated')
    \/ (seq["interviewers"] < MaxUpdateRows /\ CreateInterviewer)
    \/ (seq["forms"] < MaxUpdateRows /\ CreateInterviewForm)
    \/ UpdateInterviewForm
    \/ UpdateTemplate
    \/ UpdateQuestion

UpdateSpec == Init /\ [][UpdateNext]_vars

\* interviewers created by requests that interleave
InterleavedNext ==
    \/ BeginCreateInterviewer
    \/ CommitCreateInterviewer
    \/ ServiceCreateInterviewer
    \/ CreateTemplate
    \/ CreateInterviewForm

InterleavedSpec == Init /\ [][InterleavedNext]_vars

\* templates created and deleted, forms created, updated and deleted
ReferenceNext ==
    \/ CreateTemplate
    \/ DeleteTemplate
    \/ CreateInterviewForm
    \/ UpdateInterviewForm
    \/ DeleteInterviewForm

ReferenceSpec == Init /\ [][ReferenceNext]_vars

\* the evaluations of several forms and their synchronisation
EvaluationNext ==
    \/ CreateTemplate
    \/ CreateInterviewForm
    \/ AddEvaluation
    \/ SyncInterviewToPeopleforce
    \/ GetCandidates
    \/ GetCandidate

EvaluationSpec == Init /\ [][EvaluationNext]_vars

\* questions, the rows that tag them, and the read of a question
QuestionNext ==
    \/ CreateUnit
    \/ CreateDifficulty
    \/ CreateSeniority
    \/ CreateGroup
    \/ CreateQuestion
    \/ GetQuestion

QuestionSpec == Init /\ [][QuestionNext]_vars

\* questions tagged with a unit and a difficulty, and the filtered lists
FilterNext ==
    \/ CreateUnit
    \/ CreateDifficulty
    \/ CreateQuestion
    \/ GetQuestions
    \/ ServiceGetQuestions

FilterSpec == Init /\ [][FilterNext]_vars

\* the scores of one form and their list
ScoreNext ==
    \/ CreateTemplate
    \/ (CreateQuestion /\ PlainQuestionCreated')
    \/ CreateInterviewer
    \/ (seq["forms"] < MaxSyncForms /\ CreateInterviewForm)
    \/ AddScore
    \/ ServiceAddScore
    \/ GetScores

ScoreSpec == Init /\ [][ScoreNext]_vars

\* the feedback of one form, written by requests that interleave
RaceNext ==
    \/ CreateTemplate
    \/ (seq["forms"] < MaxSyncForms /\ CreateInterviewForm)
    \/ CreatePhrase
    \/ BeginAddFeedback
    \/ CommitAddFeedback

RaceSpec == Init /\ [][RaceNext]_vars

\* the interviewers of forms, added by requests that interleave
MembershipNext ==
    \/ CreateTemplate
    \/ CreateInterviewer
    \/ CreateInterviewForm
    \/ RemoveInterviewerFromForm
    \/ BeginAddInterviewerToForm
    \/ CommitAddInterviewerToForm

MembershipSpec == Init /\ [][MembershipNext]_vars

\* requests of every kind against one form and one template
FrameNext ==
    \/ CreateTemplate
    \/ (CreateQuestion /\ PlainQuestionCreated')
    \/ CreateInterviewer
    \/ (seq["forms"] < MaxSyncForms /\ CreateInterviewForm)
    \/ AddInterviewerToForm
    \/ RemoveInterviewerFromForm
    \/ AddQuestionsToTemplate
    \/ AddFeedback

FrameSpec == Init /\ [][FrameNext]_vars

\* ------------------------------------------------------------------ properties
\* the rows that interview forms and their memberships are stored in
FormRows(d) == <<d.forms, d.interviewer_forms>>

\* every id of the request names a row
ReferencesExist(form) ==
    /\ form.template_id \in templates
    /\ Range(form.interviewer_ids) \subseteq Ids(interviewers)

\* the form that a create request adds to d, if exactly one was added
CreatedAs(d, form) ==
    \E f \in d.forms \ forms :
        /\ d.forms = forms \cup {f}
        /\ f.template_id = form.template_id
        /\ f.candidate_id = form.candidate_id
        /\ FormInterviewers(d, f.id) = Range(form.interviewer_ids)
        /\ DeleteRows(d.interviewer_forms,
                      {p \in DOMAIN d.interviewer_forms : p[2] = f.id}) = interviewer_forms

\* C1: for every template_id and every list interviewer_ids, creating a form
\* (the endpoint and the service method) succeeds if and only if the template
\* and every listed interviewer exist; otherwise the outcome is 404 and the
\* forms and the membership rows are what they were.
C1_CreateSucceedsIffReferencesExist ==
    \A form \in InterviewFormCreate, orm \in OrmFlush :
        LET api == create_interview_form(DB, form, orm)
            svc == create_interview(DB, form, orm)
        IN  IF ReferencesExist(form)
            THEN /\ api.status = 201 /\ CreatedAs(api.db, form)
                 /\ svc.status = 200 /\ CreatedAs(svc.db, form)
            ELSE /\ api.status = 404 /\ FormRows(api.db) = FormRows(DB)
                 /\ svc.status = 404 /\ FormRows(svc.db) = FormRows(DB)

\* C2: add_score on an existing form with an existing interviewer and an
\* existing question creates a Score if and only if the interviewer is a
\* member of the form; for a non-member the outcome is 400 and no Score row
\* is added.
C2_ScoreOnlyByMember ==
    \A interview_id \in Ids(forms), score \in ScoreCreate :
        (score.interviewer_id \in Ids(interviewers) /\ score.question_id \in questions) =>
            LET api == add_score(DB, interview_id, score)
                svc == service_add_score(DB, interview_id, score)
                created(r) ==
                    \E row \in r.db.scores \ scores :
                        /\ r.db.scores = scores \cup {row}
                        /\ row.interviewer_id = score.interviewer_id
                        /\ row.question_id = score.question_id
                        /\ row.interview_form_id = interview_id
            IN  IF <<score.interviewer_id, interview_id>> \in DOMAIN interviewer_forms
                THEN /\ api.status = 201 /\ created(api)
                     /\ svc.status = 200 /\ created(svc)
                ELSE /\ api.status = 400 /\ api.db.scores = scores
                     /\ svc.status = 400 /\ svc.db.scores = scores

\* a score request of a non-member was refused while scores of members exist
C2_Witness ==
    /\ last.op = "add_score" /\ last.status = 400 /\ last.detail = "not a member"
    /\ scores # {}

\* C3: in every reachable state every stored Score's interviewer is a member
\* of the interviewer set of the form the Score belongs to.
C3_ScoreInterviewerIsMember ==
    \A s \in scores : <<s.interviewer_id, s.interview_form_id>> \in DOMAIN interviewer_forms

\* C4: for an existing form and an existing interviewer, adding a member
\* fails with 400 and removing a non-member fails with 404; in both cases the
\* form's interviewer set is unchanged.
C4_MembershipErrors ==
    \A interview_id \in Ids(forms), interviewer_id \in Ids(interviewers), orm \in OrmFlush :
        LET add == add_interviewer_to_form(DB, interview_id, interviewer_id, orm)
            sadd == service_add_interviewer_to_form(DB, interview_id, interviewer_id, orm)
            rem == remove_interviewer_from_form(DB, interview_id, interviewer_id)
            srem == service_remove_interviewer_from_form(DB, interview_id, interviewer_id)
        IN  IF <<interviewer_id, interview_id>> \in DOMAIN interviewer_forms
            THEN /\ add.status = 400 /\ add.db.interviewer_forms = interviewer_forms
                 /\ sadd.status = 400 /\ sadd.db.interviewer_forms = interviewer_forms
            ELSE /\ rem.status = 404 /\ rem.db.interviewer_forms = interviewer_forms
                 /\ srem.status = 404 /\ srem.db.interviewer_forms = interviewer_forms

\* a member was added again and refused, on a form that has another form
\* beside it without that member
C4_Witness ==
    /\ last.op = "add_interviewer_to_form" /\ last.status = 400
    /\ last.detail = "already a member"
    /\ \E f \in forms, i \in interviewers : <<i.id, f.id>> \notin DOMAIN interviewer_forms

\* the feedback rows of a form
FeedbacksOf(d, interview_id) == {r \in d.feedbacks : r.interview_form_id = interview_id}

\* C5: with requests served one at a time, after any sequence of feedback
\* requests (the endpoint and the service method, in any mix) every form has
\* at most one Feedback row.
C5_OneFeedbackPerForm ==
    \A f \in forms : Cardinality(FeedbacksOf(DB, f.id)) <= 1

\* the service method returned a feedback that is older than the newest one:
\* it served a request for a form that had its feedback
C5_Witness ==
    /\ last.op = "service_add_feedback" /\ last.status = 200
    /\ last.id < seq["feedbacks"]
    /\ Cardinality(feedbacks) = Cardinality(forms)

\* C6: the add_feedback endpoint called for a form that has a Feedback fails
\* with 400 and leaves the text and the phrases of that Feedback, and the
\* number of Feedback rows, unchanged.
C6_SecondFeedbackRefused ==
    \A interview_id \in Ids(forms), feedback \in FeedbackCreate :
        FeedbacksOf(DB, interview_id) # {} =>
            LET r == add_feedback(DB, interview_id, feedback)
            IN  /\ r.status = 400
                /\ r.db.feedbacks = feedbacks
                /\ r.db.phrases = phrases

\* the endpoint refused a second feedback for a form whose feedback has a phrase
C6_Witness ==
    /\ last.op = "add_feedback" /\ last.status = 400 /\ last.detail = "feedback exists"
    /\ \E r \in feedbacks : FeedbackPhrases(DB, r.id) # {}

\* C7: InterviewService.add_feedback called for a form that has a Feedback
\* updates that row: the rows and their ids are the same, the row's text is
\* the supplied text, and its phrases are exactly the existing phrases among
\* the supplied ids.
C7_ServiceUpdatesInPlace ==
    \A interview_id \in Ids(forms), feedback_data \in FeedbackCreate :
        \A existing \in FeedbacksOf(DB, interview_id) :
            LET r == service_add_feedback(DB, interview_id, feedback_data)
            IN  /\ r.status = 200
                /\ Ids(r.db.feedbacks) = Ids(feedbacks)
                /\ Cardinality(r.db.feedbacks) = Cardinality(feedbacks)
                /\ Row(r.db.feedbacks, existing.id).text = feedback_data.text
                /\ Row(r.db.feedbacks, existing.id).interview_form_id = interview_id
                /\ FeedbackPhrases(r.db, existing.id) =
                       Range(feedback_data.predefined_phrase_ids) \cap Ids(phrases)

\* the service method returned a feedback that is older than the newest one,
\* so one it updated, and that feedback now holds one phrase of two
C7_Witness ==
    /\ last.op = "service_add_feedback" /\ last.status = 200
    /\ last.id < seq["feedbacks"]
    /\ \E p \in phrases, o \in phrases :
          p.feedback_id = last.id /\ o.feedback_id # last.id

RemoteFailure(reply) ==
    reply.kind = "transport_error" \/ reply.status_code \notin {200, 201, 204}

\* C9: the sync handler has three outcomes: 404 when the form does not exist,
\* and then no remote request is issued; 200 when the notes update completes;
\* 500 for every failure of the remote call, whatever the remote's status or
\* the transport error was.
C9_SyncOutcomes ==
    \A interview_id \in FormIds, reply \in Replies :
        \A reads \in ReadsOf(DB, interview_id) :
            LET r == sync_interview_to_peopleforce(DB, interview_id, reads, reply)
            IN  /\ r.status \in {404, 200, 500}
                /\ r.status = 404 <=> interview_id \notin Ids(forms)
                /\ r.status = 404 => r.remote = <<>>
                /\ (interview_id \in Ids(forms) /\ RemoteFailure(reply)) => r.status = 500
                /\ r.status = 200 =>
                      /\ ~RemoteFailure(reply)
                      /\ Len(r.remote) = 1
                      /\ r.remote[1].candidate_id = Row(forms, interview_id).candidate_id

\* a sync of an existing form ended in 500
C9_Witness ==
    /\ last.op = "sync_interview_to_peopleforce" /\ last.status = 500
    /\ last.detail = "HTTPException"
    /\ forms # {}

\* C10: update_candidate_notes completes for every remote response with
\* status 200, 201 or 204, so that a sync answered with one of them returns
\* 200, and raises an error that carries the remote's status for every other
\* status.
C10_AcceptedStatuses ==
    \A interview_id \in Ids(forms), reply \in Replies :
        reply.kind = "response" =>
            \A reads \in ReadsOf(DB, interview_id) :
                LET form == Row(forms, interview_id)
                    call == update_candidate_notes(form.candidate_id, <<>>, reply)
                    r == sync_interview_to_peopleforce(DB, interview_id, reads, reply)
                IN  IF reply.status_code \in {200, 201, 204}
                    THEN call.raised = "none" /\ r.status = 200
                    ELSE call.raised = "HTTPException"
                         /\ call.status_code = reply.status_code

\* C11: the sync never changes local persisted state: for every outcome (200,
\* 404, 500) every table holds the rows it held before the call, and the
\* notes text is stored nowhere.
C11_SyncWritesNothing ==
    \A interview_id \in FormIds, reply \in Replies :
        \A reads \in ReadsOf(DB, interview_id) :
            sync_interview_to_peopleforce(DB, interview_id, reads, reply).db = DB

\* a sync of a form with an evaluation and a feedback failed at the remote
C11_Witness ==
    /\ last.op = "sync_interview_to_peopleforce" /\ last.status = 500
    /\ \E f \in forms : /\ FeedbacksOf(DB, f.id) # {}
                         /\ \E e \in evaluations : e.interview_form_id = f.id

\* the section of the notes that a piece belongs to, in the order of the text
Section ==
    [header |-> 1, position |-> 2, date |-> 3,
     interviewers_title |-> 4, interviewer |-> 4,
     scores_title |-> 5, score |-> 5, result |-> 5,
     feedback_title |-> 6, feedback |-> 6,
     recommendations_title |-> 7, phrase |-> 7]

\* the pieces of the notes that are of the given part, in the text's order
PartsOf(notes, part) == SelectSeq(notes, LAMBDA x : x.part = part)

\* the notes that a sync request sends
SentNotes(r) == r.remote[1].json.notes

\* C12: the notes hold their parts in a fixed order: header, position, date,
\* one line per interviewer of the form in the order of the membership
\* collection, the evaluation lines, the feedback text only if a Feedback
\* exists, and one bullet per phrase, in the collection's order, only if the
\* feedback has a phrase; no part of a later section precedes a part of an
\* earlier one.
C12_NotesOrder ==
    \A interview_id \in Ids(forms), reply \in Replies :
        \A reads \in SyncReads(DB, interview_id) :
            LET form == Row(forms, interview_id)
                notes == SentNotes(sync_interview_to_peopleforce(DB, interview_id, reads, reply))
            IN  /\ \A i \in DOMAIN notes, j \in DOMAIN notes :
                      i < j => Section[notes[i].part] <= Section[notes[j].part]
                /\ notes[1].part = "header"
                /\ notes[2] = [part |-> "position", text |-> form.position]
                /\ notes[3] = [part |-> "date", text |-> strftime(form.interview_date)]
                /\ PartsOf(notes, "interviewer") =
                       [k \in DOMAIN reads.iv_order |->
                           [part |-> "interviewer",
                            name |-> Row(interviewers, reads.iv_order[k]).name,
                            position |-> Row(interviewers, reads.iv_order[k]).position]]
                /\ Range(reads.iv_order) = FormInterviewers(DB, interview_id)
                /\ Len(reads.iv_order) = Cardinality(FormInterviewers(DB, interview_id))
                /\ IF FeedbacksOf(DB, interview_id) = {}
                   THEN PartsOf(notes, "feedback") = <<>> /\ PartsOf(notes, "phrase") = <<>>
                   ELSE \E fb \in FeedbacksOf(DB, interview_id) :
                          /\ PartsOf(notes, "feedback") = <<[part |-> "feedback", text |-> fb.text]>>
                          /\ PartsOf(notes, "phrase") =
                                 [k \in DOMAIN reads.ph_order |->
                                     [part |-> "phrase",
                                      text |-> Row(phrases, reads.ph_order[k]).text]]
                          /\ Range(reads.ph_order) = FeedbackPhrases(DB, fb.id)
                          /\ Len(reads.ph_order) = Cardinality(FeedbackPhrases(DB, fb.id))

\* a sync succeeded for a form with two interviewers, an evaluation and a
\* feedback that has two phrases
C12_Witness ==
    /\ last.op = "sync_interview_to_peopleforce" /\ last.status = 200
    /\ \E f \in forms :
          /\ Cardinality(FormInterviewers(DB, f.id)) = 2
          /\ \E e \in evaluations : e.interview_form_id = f.id
          /\ \E fb \in FeedbacksOf(DB, f.id) : Cardinality(FeedbackPhrases(DB, fb.id)) = 2

\* the evaluations of a form
EvaluationsOf(d, interview_id) == {e \in d.evaluations : e.interview_form_id = interview_id}

\* C13: for a form with n Evaluation rows the notes hold exactly n score
\* lines and n result lines, a pair per Evaluation of that form and none for
\* the Evaluations of other forms; the pair shows the Evaluation's total_score
\* and minimal_rate, and its label is the pass label exactly when the stored
\* passed flag is true, however total_score compares with minimal_rate.
C13_EvaluationLines ==
    \A interview_id \in Ids(forms), reply \in Replies :
        \A reads \in SyncReads(DB, interview_id) :
            LET notes == SentNotes(sync_interview_to_peopleforce(DB, interview_id, reads, reply))
                mine == EvaluationsOf(DB, interview_id)
                score == PartsOf(notes, "score")
                result == PartsOf(notes, "result")
            IN  /\ Len(score) = Cardinality(mine)
                /\ Len(result) = Cardinality(mine)
                /\ {x.evaluation : x \in Range(score)} = Ids(mine)
                /\ {x.evaluation : x \in Range(result)} = Ids(mine)
                /\ \A k \in DOMAIN notes :
                      notes[k].part = "score" =>
                          LET ev == Row(evaluations, notes[k].evaluation)
                          IN  /\ notes[k].total_score = ev.total_score
                              /\ notes[k].minimal_rate = ev.minimal_rate
                              /\ k + 1 \in DOMAIN notes
                              /\ notes[k + 1].part = "result"
                              /\ notes[k + 1].evaluation = ev.id
                              /\ (notes[k + 1].text = "Proishov") = ev.passed
                              /\ (notes[k + 1].text = "Ne proishov") = ~ev.passed

\* a sync was served while one form has an evaluation that passed below the
\* minimal rate and another form has an evaluation of its own
C13_Witness ==
    /\ last.op = "sync_interview_to_peopleforce" /\ last.status = 200
    /\ \E e \in evaluations, o \in evaluations :
          /\ e.interview_form_id # o.interview_form_id
          /\ e.passed /\ e.total_score < e.minimal_rate
          /\ ~o.passed /\ o.total_score >= o.minimal_rate

\* C14: a sync issues at most one remote request: one PATCH of the notes
\* addressed to the form's stored candidate_id; it is not repeated after a
\* failure, and no attachment is uploaded.
C14_OneRemoteRequest ==
    \A interview_id \in FormIds, reply \in Replies :
        \A reads \in ReadsOf(DB, interview_id) :
            LET r == sync_interview_to_peopleforce(DB, interview_id, reads, reply)
            IN  /\ Len(r.remote) <= 1
                /\ \A k \in DOMAIN r.remote :
                      /\ r.remote[k].method = "PATCH"
                      /\ r.remote[k].candidate_id = Row(forms, interview_id).candidate_id
                      /\ DOMAIN r.remote[k].json = {"notes"}

\* a sync of an existing form ended in 500 because the transport failed
C14_Witness ==
    /\ last.op = "sync_interview_to_peopleforce" /\ last.status = 500
    /\ last.detail = "TransportError"
    /\ forms # {}

\* C15: for the candidate list and the single candidate endpoint, a remote
\* response with a status s other than 200 makes the call fail with an error
\* whose status is s (a remote 404 is answered with 404), and 200 is the
\* only remote status that yields a result.
C15_CandidateStatusPassedThrough ==
    /\ \A filters \in Filters, reply \in GetReplies(CandidateLists) :
          LET call == client_get_candidates(filters, reply)
              r == get_candidates(filters, reply)
          IN  /\ (reply.kind = "response" /\ reply.status_code # 200) =>
                     /\ call.raised = "HTTPException"
                     /\ call.status_code = reply.status_code
                     /\ r.status = reply.status_code /\ r.result = <<>>
              /\ r.status = 200 => (reply.kind = "response" /\ reply.status_code = 200)
    /\ \A candidate_id \in Candidates \cup {f.candidate_id : f \in forms},
          reply \in GetReplies(CandidateObjects) :
          LET call == client_get_candidate(candidate_id, reply)
              r == get_candidate(candidate_id, reply)
          IN  /\ (reply.kind = "response" /\ reply.status_code # 200) =>
                     /\ call.raised = "HTTPException"
                     /\ call.status_code = reply.status_code
                     /\ r.status = reply.status_code /\ r.result = <<>>
              /\ r.status = 200 => (reply.kind = "response" /\ reply.status_code = 200)

\* the single candidate endpoint answered 404 as the remote did
C15_Witness ==
    /\ last.op = "get_candidate" /\ last.status = 404 /\ last.detail = "HTTPException"

\* C16: deleting an InterviewForm, an ApplicationTemplate or a Question has
\* two outcomes in every reachable state, also when other rows reference the
\* entity: success when the id exists, after which the entity is not found
\* any more, or 404 when it does not exist, and then nothing changes.
C16_DeleteSucceedsOrNotFound ==
    /\ \A interview_id \in FormIds :
          LET r == delete_interview_form(DB, interview_id)
          IN  IF interview_id \in Ids(forms)
              THEN r.status = 204 /\ interview_id \notin Ids(r.db.forms)
              ELSE r.status = 404 /\ r.db = DB
    /\ \A template_id \in TemplateIds :
          LET r == delete_template(DB, template_id)
          IN  IF template_id \in templates
              THEN r.status = 204 /\ template_id \notin r.db.templates
              ELSE r.status = 404 /\ r.db = DB
    /\ \A question_id \in QuestionIds :
          LET r == delete_question(DB, question_id)
          IN  IF question_id \in questions
              THEN r.status = 204 /\ question_id \notin r.db.questions
              ELSE r.status = 404 /\ r.db = DB

\* the fields that an update request supplies
Supplied(request) == (DOMAIN request.values) \cup request.nulls

\* what an update may do to a row: the columns that were not supplied keep
\* their values, updated_at aside; when the request is served, the supplied
\* columns hold the supplied values; a request that supplies values only is
\* served
UpdatedOnly(old, new, request, status) ==
    /\ DOMAIN new = DOMAIN old
    /\ \A c \in DOMAIN old \ (Supplied(request) \cup {"updated_at"}) : new[c] = old[c]
    /\ status = 200 =>
          /\ \A c \in DOMAIN request.values : new[c] = request.values[c]
          /\ \A c \in request.nulls : new[c] = None
    /\ status # 200 => new = old
    /\ request.nulls = {} => status = 200

C18_EmailUnique ==
    /\ \A a \in interviewers, b \in interviewers : a.email = b.email => a.id = b.id
    /\ \A p \in in_flight :
          LET r == create_interviewer_commit(DB, p.request)
          IN  \A a \in r.db.interviewers, b \in r.db.interviewers :
                  a.email = b.email => a.id = b.id
    /\ \A interviewer \in InterviewerCreate :
          LET api == create_interviewer(DB, interviewer)
              svc == service_create_interviewer(DB, interviewer)
          IN  IF \E r \in interviewers : r.email = interviewer.email
              THEN /\ api.status = 400 /\ api.db = DB
                   /\ svc.status = 400 /\ svc.db = DB
              ELSE /\ api = create_interviewer_commit(DB, interviewer)
                   /\ api.status = 201
                   /\ Cardinality(api.db.interviewers) = Cardinality(interviewers) + 1
                   /\ Cardinality(svc.db.interviewers) = Cardinality(interviewers) + 1

\* of two requests with the same email that were in flight together, one was
\* committed and the commit of the other has failed
C18_Witness ==
    /\ last.op = "create_interviewer_commit" /\ last.status = 500
    /\ interviewers # {}

\* C19: in every state reachable by creating and deleting templates and
\* creating, updating and deleting forms, the template_id of each stored
\* form names a template that exists.
C19_FormTemplateExists ==
    /\ \A f \in forms : f.template_id \in templates
    /\ \A template_id \in TemplateIds :
          \A f \in delete_template(DB, template_id).db.forms :
              f.template_id \in delete_template(DB, template_id).db.templates

\* the delete of a template that a form refers to has failed
C19_Witness ==
    /\ last.op = "delete_template" /\ last.status = 500
    /\ \E f \in forms : f.template_id \in templates /\ f.updated_at \in UpdateTimes

\* C20: Feedback and PredefinedPhrase are related many-to-many: a phrase can
\* be attached to the Feedbacks of several forms at once, so attaching a
\* phrase to the Feedback of one form leaves it attached to the Feedback of
\* another.
C20_PhraseSharedByFeedbacks ==
    \A interview_id \in Ids(forms), feedback \in FeedbackCreate :
        LET api == add_feedback(DB, interview_id, feedback)
            svc == service_add_feedback(DB, interview_id, feedback)
        IN  \A other \in feedbacks :
                other.interview_form_id # interview_id =>
                    /\ (api.status = 201 =>
                           FeedbackPhrases(DB, other.id) \subseteq FeedbackPhrases(api.db, other.id))
                    /\ (svc.status = 200 =>
                           FeedbackPhrases(DB, other.id) \subseteq FeedbackPhrases(svc.db, other.id))

\* what other requests may do between a create and a get of a question
\* without touching it: create another question, delete another question
Untouched(d, question_id) ==
    {d, create_question(d, PlainQuestion).db}
    \cup {delete_question(d, other).db : other \in d.questions \ {question_id}}

\* C21: creating a Question and then fetching it by the id that the create
\* returned yields the submitted text, weight, docs_reference, priority,
\* unit_id, difficulty_id, level_id and group_id, also when other questions
\* were created or deleted in between.
C21_QuestionRoundTrip ==
    \A question \in QuestionCreate :
        LET created == create_question(DB, question)
        IN  created.status = 201 =>
                \A d \in Untouched(created.db, created.id) :
                    LET got == get_question(d, created.id)
                    IN  /\ got.status = 200
                        /\ got.body[1].id = created.id
                        /\ \A c \in QuestionFields : got.body[1][c] = question[c]

\* the question created last, one with no default and with a tag, was fetched
C21_Witness ==
    /\ last.op = "get_question" /\ last.status = 200
    /\ last.id = seq["questions"]
    /\ question_columns[last.id].weight # 10
    /\ question_columns[last.id].unit_id # NULL

\* C22: for every supplied value of a foreign-key filter (unit_id,
\* difficulty_id, level_id, group_id in get_questions of the endpoint and of
\* the service; interviewer_id in get_scores) every returned row has that
\* field equal to the supplied value, several supplied filters holding
\* together; a row whose field is NULL equals no supplied value.
C22_FiltersExact ==
    /\ \A skip \in Skips, limit \in Limits, params \in FilterRequests,
          text_search \in TextSearches, scan \in Orders(questions) :
           LET api == get_questions(DB, skip, limit, params, text_search, scan)
               svc == service_get_questions(DB, skip, limit, params, text_search, scan)
           IN  \A r \in {api, svc} : \A k \in DOMAIN r.body : \A c \in DOMAIN params :
                   SqlEq(question_columns[r.body[k]][c], params[c])
    /\ \A interview_id \in Ids(forms), params \in ScoreParams, scan \in Orders(Ids(scores)) :
           LET r == get_scores(DB, interview_id, params, scan)
           IN  \A k \in DOMAIN r.body : \A c \in DOMAIN params :
                   SqlEq(Row(scores, r.body[k])[c], params[c])

\* C23: an add_feedback request that passed the test for an existing feedback
\* commits whatever was committed since: its Feedback row is added also when
\* the form has got a feedback in between, so two add_feedback requests that
\* both pass the test leave two Feedback rows for one form.
C23_CommitAfterStaleCheck ==
    \A p \in in_flight :
        p.op = "add_feedback" =>
            LET r == add_feedback_commit(DB, p.request.interview_id, p.request.text,
                                         p.request.found)
            IN  /\ r.status = 201
                /\ FeedbacksOf(r.db, p.request.interview_id) =
                       FeedbacksOf(DB, p.request.interview_id)
                       \cup {[id |-> r.id, text |-> p.request.text,
                              interview_form_id |-> p.request.interview_id]}

\* two interleaved requests have both committed: one form has two feedbacks
C23_Witness ==
    /\ last.op = "add_feedback_commit" /\ last.status = 201
    /\ in_flight = {}
    /\ \E f \in forms : Cardinality(FeedbacksOf(DB, f.id)) = 2

\* C25: add_score (the endpoint and the service method) tests its references
\* in a fixed order before it creates anything: a missing form is 404;
\* otherwise a missing interviewer is 404; otherwise an interviewer who is
\* not a member is 400; otherwise a missing question is 404, each leaving
\* the database as it was; when all four tests pass one Score row is added,
\* with the question_id, interviewer_id, value and comment of the request
\* and the form id of the path.
C25_AddScoreCheckOrder ==
    \A interview_id \in FormIds, score \in ScoreCreate :
        \A r \in {add_score(DB, interview_id, score),
                  service_add_score(DB, interview_id, score)} :
            IF interview_id \notin Ids(forms)
            THEN r.status = 404 /\ r.detail = "form not found" /\ r.db = DB
            ELSE IF score.interviewer_id \notin Ids(interviewers)
            THEN r.status = 404 /\ r.detail = "interviewer not found" /\ r.db = DB
            ELSE IF <<score.interviewer_id, interview_id>> \notin DOMAIN interviewer_forms
            THEN r.status = 400 /\ r.detail = "not a member" /\ r.db = DB
            ELSE IF score.question_id \notin questions
            THEN r.status = 404 /\ r.detail = "question not found" /\ r.db = DB
            ELSE /\ r.status \in {200, 201}
                 /\ r.id \notin Ids(scores)
                 /\ r.db.scores = scores \cup
                        {[id |-> r.id, question_id |-> score.question_id,
                          value |-> score.value, comment |-> score.comment,
                          interviewer_id |-> score.interviewer_id,
                          interview_form_id |-> interview_id, evaluation_id |-> NULL]}
                 /\ [r.db EXCEPT !.scores = scores, !.seq = seq] = DB

\* a score of an interviewer who is not a member, for a question that does
\* not exist either, was refused with 400 while the form has a member
C25_Witness ==
    /\ last.op = "add_score" /\ last.status = 400 /\ last.detail = "not a member"
    /\ questions = {}
    /\ DOMAIN interviewer_forms # {}

\* C26: add_questions_to_template (the endpoint and the service method) is
\* all-or-nothing over its list: if some id of the list names no Question the
\* call fails with 404 and the stored question sets are unchanged; if every
\* id names a Question and none is a member of the template, the call
\* succeeds and the template's set is the old set plus the listed questions.
C26_AddQuestionsAllOrNothing ==
    \A template_id \in templates, questions_list \in SeqsUpTo(QuestionIds, MaxListLen),
       orm \in OrmFlush :
        \A r \in {add_questions_to_template(DB, template_id, questions_list, orm),
                  service_add_questions_to_template(DB, template_id, questions_list, orm)} :
            IF ~(Range(questions_list) \subseteq questions)
            THEN r.status = 404 /\ r.db = DB
            ELSE Range(questions_list) \cap TemplateQuestions(DB, template_id) = {} =>
                     /\ r.status = 200
                     /\ TemplateQuestions(r.db, template_id) =
                            TemplateQuestions(DB, template_id) \cup Range(questions_list)

\* the question sets of the templates of d, one per template
QuestionSets(d) == [t \in d.templates |-> TemplateQuestions(d, t)]

\* what a membership request on the template x may leave of the database d
MembershipChanges(d, x) ==
    {add_questions_to_template(d, x, questions_list, orm).db :
        questions_list \in SeqsUpTo(QuestionIds, MaxListLen), orm \in OrmFlush}
    \cup {remove_question_from_template(d, x, question_id).db :
            question_id \in QuestionIds}

\* C27: clone_template (the endpoint and the service method) of an existing
\* source adds exactly one template, whose question set is the source's at
\* the time of the call, and leaves the question set of every template that
\* was there unchanged; a later membership request on the source or on the
\* clone leaves the question set of the other as it is; a clone of a missing
\* source is 404 and leaves the database as it was.
C27_CloneCopiesQuestions ==
    \A template_id \in TemplateIds, template_data \in TemplateCreate, orm \in OrmFlush :
        \A order \in SourceOrders(DB, template_id) :
            \A r \in {clone_template(DB, template_id, template_data, order, orm),
                      service_clone_template(DB, template_id, template_data, order, orm)} :
                IF template_id \notin templates
                THEN r.status = 404 /\ r.db = DB
                ELSE /\ r.status = 200
                     /\ r.id \notin templates
                     /\ r.db.templates = templates \cup {r.id}
                     /\ TemplateQuestions(r.db, r.id) = TemplateQuestions(DB, template_id)
                     /\ \A t \in templates : QuestionSets(r.db)[t] = QuestionSets(DB)[t]
                     /\ \A later \in MembershipChanges(r.db, template_id) :
                            TemplateQuestions(later, r.id) = TemplateQuestions(r.db, r.id)
                     /\ \A later \in MembershipChanges(r.db, r.id) :
                            TemplateQuestions(later, template_id) =
                                TemplateQuestions(r.db, template_id)

\* a template with two questions was cloned
C27_Witness ==
    /\ last.op = "clone_template" /\ last.status = 200
    /\ Cardinality(TemplateQuestions(DB, last.id)) = 2
    /\ \E t \in templates \ {last.id} : TemplateQuestions(DB, t) = TemplateQuestions(DB, last.id)

\* C28: when add_feedback creates a Feedback (the form exists and has no
\* feedback), the call succeeds whatever ids the request lists, and the
\* phrases of the new Feedback are exactly the listed ids that name an
\* existing PredefinedPhrase; ids that name none are skipped
C28_UnknownPhrasesSkipped ==
    \A interview_id \in Ids(forms), feedback \in FeedbackCreate :
        (\A f \in feedbacks : f.interview_form_id # interview_id) =>
            LET r == add_feedback(DB, interview_id, feedback)
                s == service_add_feedback(DB, interview_id, feedback)
                listed == Range(feedback.predefined_phrase_ids)
            IN  /\ r.status = 201
                /\ r.id \notin Ids(feedbacks)
                /\ r.id \in Ids(r.db.feedbacks)
                /\ FeedbackPhrases(r.db, r.id) = listed \cap Ids(phrases)
                /\ s.status = 200
                /\ s.id \notin Ids(feedbacks)
                /\ s.id \in Ids(s.db.feedbacks)
                /\ FeedbackPhrases(s.db, s.id) = listed \cap Ids(phrases)

\* a feedback was created by a request that listed an existing phrase and
\* an id that names none: the feedback holds the one phrase
C28_Witness ==
    /\ last.op = "add_feedback"
    /\ last.status = 201
    /\ last.skipped > 0
    /\ FeedbackPhrases(DB, last.id) # {}

\* the responses of the mutating handlers of api/interviews.py and
\* api/templates.py to every request in the current state
InterviewResponses ==
    {create_interview_form(DB, form, orm) : form \in InterviewFormCreate, orm \in OrmFlush}
    \cup {update_interview_form(DB, interview_id, form, now) :
            interview_id \in FormIds, form \in UpdateRequests(InterviewFormUpdateFields),
            now \in UpdateTimes}
    \cup {delete_interview_form(DB, interview_id) : interview_id \in FormIds}
    \cup {create_interviewer(DB, interviewer) : interviewer \in InterviewerCreate}
    \cup {add_interviewer_to_form(DB, interview_id, interviewer_id, orm) :
            interview_id \in FormIds, interviewer_id \in InterviewerIds, orm \in OrmFlush}
    \cup {remove_interviewer_from_form(DB, interview_id, interviewer_id) :
            interview_id \in FormIds, interviewer_id \in InterviewerIds}
    \cup {add_score(DB, interview_id, score) : interview_id \in FormIds, score \in ScoreCreate}
    \cup {add_evaluation(DB, interview_id, evaluation) :
            interview_id \in FormIds, evaluation \in EvaluationCreate}
    \cup {add_feedback(DB, interview_id, feedback) :
            interview_id \in FormIds, feedback \in FeedbackCreate}
    \cup {create_phrase(DB, phrase) : phrase \in PredefinedPhraseCreate}

TemplateResponses ==
    {create_template(DB)}
    \cup {update_template(DB, template_id, template, now) :
            template_id \in TemplateIds, template \in UpdateRequests(TemplateUpdateFields),
            now \in UpdateTimes}
    \cup {delete_template(DB, template_id) : template_id \in TemplateIds}
    \cup {add_questions_to_template(DB, template_id, questions_list, orm) :
            template_id \in TemplateIds,
            questions_list \in SeqsUpTo(QuestionIds, MaxListLen), orm \in OrmFlush}
    \cup {remove_question_from_template(DB, template_id, question_id) :
            template_id \in TemplateIds, question_id \in QuestionIds}
    \cup UNION {{clone_template(DB, template_id, template_data, order, orm) :
                    template_data \in TemplateCreate, orm \in OrmFlush,
                    order \in SourceOrders(DB, template_id)} :
                template_id \in TemplateIds}

\* C24: every mutating handler commits once on the path that returns and
\* not at all on a path that raises NotFound (404) or Conflict (400); a
\* request that ends in 404 or 400 leaves the tables and the id sequences
\* exactly as they were before the request.
C24_ErrorsCommitNothing ==
    \A r \in InterviewResponses \cup TemplateResponses :
        /\ r.commits <= 1
        /\ r.status \in {200, 201, 204} => r.commits = 1
        /\ r.status \in {404, 400} => r.commits = 0 /\ r.db = DB

\* a request for a form that has a feedback was refused with 400 while the
\* form has an interviewer and the template a question
C24_Witness ==
    /\ last.op = "add_feedback"
    /\ last.status = 400
    /\ feedbacks # {}
    /\ DOMAIN interviewer_forms # {}
    /\ template_questions # {}

\* what a caller sees of a response: that it succeeded (an endpoint answers
\* 200, 201 or 204, a service method returns), or the status of its error
Outcome(r) == IF r.status \in {200, 201, 204} THEN 200 ELSE r.status

\* the same outcome, the same error, the same row returned and the same
\* database left behind
Equivalent(r, s) ==
    /\ Outcome(r) = Outcome(s)
    /\ r.detail = s.detail
    /\ r.id = s.id
    /\ r.db = s.db

\* C29: for create interview form, add_score, add_interviewer_to_form and
\* remove_interviewer_from_form the endpoint and the InterviewService method
\* give, from the same state and the same inputs, the same outcome (success,
\* 404 or 400) and the same resulting tables and sequences.
C29_EndpointServiceEquivalent ==
    /\ \A form \in InterviewFormCreate, orm \in OrmFlush :
          Equivalent(create_interview_form(DB, form, orm), create_interview(DB, form, orm))
    /\ \A interview_id \in FormIds, score \in ScoreCreate :
          Equivalent(add_score(DB, interview_id, score),
                     service_add_score(DB, interview_id, score))
    /\ \A interview_id \in FormIds, interviewer_id \in InterviewerIds :
          /\ \A orm \in OrmFlush :
                Equivalent(add_interviewer_to_form(DB, interview_id, interviewer_id, orm),
                           service_add_interviewer_to_form(DB, interview_id,
                                                           interviewer_id, orm))
          /\ Equivalent(remove_interviewer_from_form(DB, interview_id, interviewer_id),
                        service_remove_interviewer_from_form(DB, interview_id,
                                                             interviewer_id))

\* the service created a second form with an interviewer, next to a form
\* that has an interviewer and a score
C29_Witness ==
    /\ last.op = "create_interview"
    /\ last.status = 200
    /\ \E i \in Ids(interviewers) : <<i, last.id>> \in DOMAIN interviewer_forms
    /\ \E s \in scores : s.interview_form_id # last.id
                         /\ <<s.interviewer_id, s.interview_form_id>> \in DOMAIN interviewer_forms

\* C30: in every reachable state the join table interviewer_forms holds
\* each (interviewer, form) pair in at most one row, also after a form was
\* created from a list that repeats an id and after two
\* add_interviewer_to_form requests for one pair interleaved.
C30_MembershipAtMostOnce ==
    \A p \in DOMAIN interviewer_forms : interviewer_forms[p] <= 1

\* the later commit of two interleaved requests for one pair was refused,
\* the pair is in the table, and a form whose flush was refused before has
\* used up an id
C30_Witness ==
    /\ last.op = "add_interviewer_to_form_commit"
    /\ last.status = 500
    /\ \E i \in Ids(interviewers), f \in Ids(forms) : <<i, f>> \in DOMAIN interviewer_forms
    /\ seq["forms"] > Cardinality(forms)

====
